---------------------------- MODULE Spec2Model ----------------------------
(***************************************************************************)
(* A model of uagents/network.py: the Almanac contract client              *)
(* (registration_needs_update, sign, register, register_batch), the        *)
(* confirmation poller wait_for_tx_to_complete and the name service        *)
(* client (get_registration_tx), together with the ledger they talk to.    *)
(*                                                                         *)
(* Python values are written as follows.  None is the record NoneVal and   *)
(* an Optional value v is Some(v).  An AgentEndpoint object is the tuple   *)
(* <<url, weight>>; the dict that model_dump makes of it and that the      *)
(* contract stores is the record [url |-> .., weight |-> ..].  A call's    *)
(* outcome is Return(v) or Raise(exception name).                          *)
(***************************************************************************)
EXTENDS Integers, Sequences, FiniteSets, TLC

(***************************************************************************)
(* Bounds of the model.                                                    *)
(***************************************************************************)
MaxEndpoints == 2       \* longest endpoint list
MaxProtocols == 1       \* longest protocol list
MaxHeight == 1          \* highest block height of the ledger
MaxMinSeconds == 1      \* min_seconds_left ranges over 0, 6, ... (whole blocks)
MaxTx == 2              \* transactions the registration flows broadcast in one behaviour
MaxBatches == 1         \* transactions register_batch broadcasts in one behaviour
MaxBatch == 2           \* longest record list given to register_batch
MaxDelay == 1           \* longest ledger round trip, and longest oversleep
MaxTimeout == 3         \* longest timeout given to wait_for_tx_to_complete
MaxPoll == 2            \* longest poll_period given to wait_for_tx_to_complete

(***************************************************************************)
(* Program constants.  uagents.config sets the value; network.py imports   *)
(* it.                                                                     *)
(***************************************************************************)
AVERAGE_BLOCK_INTERVAL == 6
\* Seconds; the model's clock counts in units of its own, so the waits are
\* scaled down.
ALMANAC_REGISTRATION_WAIT == 1
DEFAULT_LEDGER_TX_WAIT_SECONDS == 2
DEFAULT_QUERY_INTERVAL_SECS == 1
DEFAULT_QUERY_TIMEOUT_SECS == 1
\* The fee of one registration, scaled down.
REGISTRATION_FEE == 5
\* The contract state's "expiry_height": the blocks a registration lasts.
expiry_height == 1

Agents == {"agent1", "agent2"}
FlowAgents == {"agent1"}    \* the agents whose registration flows are run
AgentEndpoints == {<<"a", 1>>, <<"b", 2>>}
Protocols == {"proto1", "proto2"}

BoundedSeq(S, n) == UNION {[1..k -> S] : k \in 0..n}

NoneVal == [tag |-> "None"]
Some(v) == [tag |-> "Some", val |-> v]
Return(v) == [kind |-> "return", value |-> v]
Raise(e) == [kind |-> "raise", exc |-> e]

(***************************************************************************)
(* A model_dump that leaves the weight at its default.                     *)
(***************************************************************************)
model_dump_default_weight(e) == [url |-> e[1], weight |-> 1]

(***************************************************************************)
(* AgentEndpoint.model_dump and AgentEndpoint.model_validate.              *)
(***************************************************************************)
model_dump(e) == [url |-> e[1], weight |-> e[2]]
model_validate(d) == <<d.url, d.weight>>

EndpointLists == BoundedSeq(AgentEndpoints, MaxEndpoints)
ProtocolLists == BoundedSeq(Protocols, MaxProtocols)
EndpointDicts == {model_dump(e) : e \in AgentEndpoints}
MinSecondsLeft == {AVERAGE_BLOCK_INTERVAL * k : k \in 0..MaxMinSeconds}

(***************************************************************************)
(* The Almanac contract's record of an agent, as the contract keeps it.    *)
(***************************************************************************)
NoRecord == [tag |-> "NoRecord"]
ChainRecords ==
    [expiry : 0..MaxHeight,
     endpoints : BoundedSeq(EndpointDicts, MaxEndpoints),
     protocols : ProtocolLists]

Wallet == "wallet1"
ContractAddress == "almanac"
FeeDenomination == "atestfet"

(***************************************************************************)
(* The name service: names, domains, wallets, networks, and the contract's *)
(* record of a full name: what it answers to query_domain_record           *)
(* ("is_available") and to permissions, per wallet.                        *)
(***************************************************************************)
Names == {"alice", "bob"}
Domains == {"agent"}
Wallets == {"wallet1", "wallet2"}
Networks == {"mainnet", "testnet"}
MAINNET_CONTRACT_NAME_SERVICE == "name_service_mainnet"
TESTNET_CONTRACT_NAME_SERVICE == "name_service_testnet"
Permissions == {"admin", "none"}
\* f"{name}.{domain}"
FullName(name, domain) == <<name, ".", domain>>
FullNames == {FullName(n, d) : n \in Names, d \in Domains}
NameRecords == [is_available : BOOLEAN, permissions : [Wallets -> Permissions]]
NoNames ==
    [f \in FullNames |-> [is_available |-> TRUE,
                          permissions |-> [w \in Wallets |-> "none"]]]
\* The contract state's "price_per_second", at the least price.
price_per_second == [amount |-> "1", denom |-> FeeDenomination]
\* int() of the decimal strings the contract uses for amounts.
int(str) == CASE str = "0" -> 0 [] str = "1" -> 1 [] str = "2" -> 2

(***************************************************************************)
(* NameServiceContract.register's surroundings.  The Almanac deployed on a *)
(* network answers get_contract_version with the supported version, with   *)
(* another one, or not at all, and holds the set of registered addresses.  *)
(* query_domain_flags answers with no "domain_flags", or with is_public.   *)
(***************************************************************************)
ALMANAC_CONTRACT_VERSION == "v_supported"
DeployedVersions == {Some(ALMANAC_CONTRACT_VERSION), Some("v_other"), NoneVal}
NameAddresses == {"agent1", "agent2", "agent1_1"}
DomainFlags == {NoneVal, Some([web3_flags |-> [is_public |-> TRUE]]),
                Some([web3_flags |-> [is_public |-> FALSE]])}
NoAlmanacs ==
    [n \in Networks |-> [contract_version |-> Some(ALMANAC_CONTRACT_VERSION),
                         registered |-> {}]]
NoDomainFlags == [d \in Domains |-> NoneVal]
NoDomainRecords == [f \in FullNames |-> NoneVal]

VARIABLES
    almanac,        \* the contract's state: agent address -> its record or NoRecord
    height,         \* the ledger's current block height
    names,          \* the name service contract's state: full name -> its record
    almanacs,       \* per network, the deployed Almanac: its version and who is registered
    domain_flags,   \* the name service's answer to query_domain_flags, per top domain
    domain_records, \* the name service's "record" of a full name: None, or its agent records
    txs,            \* the transactions broadcast to the ledger; a hash is an index
    now,            \* the wall clock (time.time(), datetime.now())
    self_address,   \* the AlmanacContract's address attribute, or None
    records,        \* the caller's AlmanacContractRecord objects, one per agent
    nu,             \* the last registration_needs_update call: arguments and outcome
    pc,             \* where the caller is: idle, decided, signed, waiting
    frec,           \* the record the running registration flow is about
    call,           \* the last register / register_batch call: arguments and outcome
    tx_hash,        \* wait_for_tx_to_complete: the hash polled
    start,          \* wait_for_tx_to_complete: start
    timeout,        \* wait_for_tx_to_complete: timeout
    poll_period,    \* wait_for_tx_to_complete: poll_period
    delta,          \* wait_for_tx_to_complete: delta, as last computed
    polls,          \* wait_for_tx_to_complete: query_tx calls made
    wpc,            \* wait_for_tx_to_complete: query (about to poll), sleep, done
    other           \* a second coroutine of the process: its register call and its poller

chainVars == <<almanac, height, names, almanacs, domain_flags, domain_records>>
clientVars == <<self_address, records, pc, frec, call>>
pollVars == <<tx_hash, start, timeout, poll_period, delta, polls, wpc>>
vars == <<almanac, height, names, almanacs, domain_flags, domain_records, txs, now, self_address, records, nu, pc, frec, call,
          tx_hash, start, timeout, poll_period, delta, polls, wpc, other>>

(***************************************************************************)
(* The contract's answer to {"query_records": {"agent_address": address}}. *)
(***************************************************************************)
query_records(address) ==
    [record |-> IF almanac[address] = NoRecord THEN <<>> ELSE <<almanac[address]>>,
     height |-> height]

(***************************************************************************)
(* AlmanacContract.is_registered: bool(response.get("record")).            *)
(***************************************************************************)
is_registered(address) == query_records(address).record # <<>>

(***************************************************************************)
(* AlmanacContract.query_agent_record.  With no record the code returns    *)
(* the empty list; the fallback to the contract state below it is never    *)
(* reached.                                                                *)
(***************************************************************************)
query_agent_record(address) ==
    LET response == query_records(address) IN
    IF response.record = <<>>
    THEN <<>>
    ELSE LET expiry_block == response.record[1].expiry
             current_block == response.height
             seconds_to_expiry == (expiry_block - current_block) * AVERAGE_BLOCK_INTERVAL
             endpoints == [i \in 1..Len(response.record[1].endpoints) |->
                              model_validate(response.record[1].endpoints[i])]
             protocols == response.record[1].protocols
         IN <<seconds_to_expiry, endpoints, protocols>>

(***************************************************************************)
(* registration_needs_update without its expiry test.                      *)
(***************************************************************************)
registration_needs_update_no_expiry(address, endpoints, protocols, min_seconds_left) ==
    LET r == query_agent_record(address) IN
    IF Len(r) # 3
    THEN Raise("ValueError")
    ELSE Return(\/ ~is_registered(address)
                \/ endpoints # r[2]
                \/ protocols # r[3])

(***************************************************************************)
(* registration_needs_update comparing the endpoints as sets.              *)
(***************************************************************************)
registration_needs_update_unordered(address, endpoints, protocols, min_seconds_left) ==
    LET r == query_agent_record(address) IN
    IF Len(r) # 3
    THEN Raise("ValueError")
    ELSE Return(\/ ~is_registered(address)
                \/ r[1] < min_seconds_left
                \/ {endpoints[i] : i \in 1..Len(endpoints)} # {r[2][i] : i \in 1..Len(r[2])}
                \/ protocols # r[3])

(***************************************************************************)
(* AlmanacContract.registration_needs_update.  The result of               *)
(* query_agent_record is unpacked into three names, which raises           *)
(* ValueError unless it has three elements.                                *)
(***************************************************************************)
registration_needs_update(address, endpoints, protocols, min_seconds_left) ==
    LET r == query_agent_record(address) IN
    IF Len(r) # 3
    THEN Raise("ValueError")
    ELSE LET seconds_to_expiry == r[1]
             registered_endpoints == r[2]
             registered_protocols == r[3]
         IN Return(\/ ~is_registered(address)
                   \/ seconds_to_expiry < min_seconds_left
                   \/ endpoints # registered_endpoints
                   \/ protocols # registered_protocols)

NoCall == [op |-> "none"]
\* The second coroutine before it is started.
NoOther == [pc |-> "none"]

(***************************************************************************)
(* The name service and the networks' Almanacs as the specifications that  *)
(* do not use them hold them.                                              *)
(***************************************************************************)
NoNameService ==
    /\ almanacs = NoAlmanacs
    /\ domain_flags = NoDomainFlags
    /\ domain_records = NoDomainRecords

(***************************************************************************)
(* No wait_for_tx_to_complete call has been made.                          *)
(***************************************************************************)
NoWait ==
    /\ tx_hash = 0
    /\ start = 0
    /\ timeout = 0
    /\ poll_period = 0
    /\ delta = 0
    /\ polls = 0
    /\ wpc = "done"

(***************************************************************************)
(* A call of registration_needs_update.  It makes its ledger queries one   *)
(* after the other without suspending; nu keeps what it was given, what    *)
(* the contract answered and what it gave back.                            *)
(***************************************************************************)
NeedsUpdateCall(address, endpoints, protocols, min_seconds_left) ==
    nu' = [op |-> "registration_needs_update",
           address |-> address,
           endpoints |-> endpoints,
           protocols |-> protocols,
           min_seconds_left |-> min_seconds_left,
           response |-> query_records(address),
           result |-> registration_needs_update(
                          address, endpoints, protocols, min_seconds_left)]

NeedsUpdate ==
    /\ \E address \in Agents, endpoints \in EndpointLists,
          protocols \in ProtocolLists, min_seconds_left \in MinSecondsLeft :
           NeedsUpdateCall(address, endpoints, protocols, min_seconds_left)
    /\ UNCHANGED <<other, chainVars, txs, now, clientVars, pollVars>>

(***************************************************************************)
(* SpecNU: registration_needs_update against every state of the contract.  *)
(***************************************************************************)
InitNU ==
    /\ \E address \in Agents, r \in ChainRecords \cup {NoRecord} :
           almanac = [a \in Agents |-> IF a = address THEN r ELSE NoRecord]
    /\ height \in 0..MaxHeight
    /\ names = NoNames
    /\ NoNameService
    /\ nu = NoCall
    /\ other = NoOther
    /\ txs = <<>>
    /\ now = 0
    /\ self_address = Some(ContractAddress)
    /\ records = [a \in Agents |-> NoneVal]
    /\ pc = "idle"
    /\ frec = NoneVal
    /\ call = NoCall
    /\ NoWait

NextNU == nu = NoCall /\ NeedsUpdate

SpecNU == InitNU /\ [][NextNU]_vars

(***************************************************************************)
(* The ledger.  A broadcast transaction is pending until the ledger        *)
(* includes it in a block; from then on query_tx finds it.                 *)
(***************************************************************************)
PendingTx(msgs) == [msgs |-> msgs, included |-> FALSE, code |-> 0]

TxResponse(h) == [hash |-> h, code |-> txs[h].code]

(***************************************************************************)
(* ledger.query_tx: the transaction's response, or NotFoundError.          *)
(***************************************************************************)
query_tx(h) ==
    IF txs[h].included THEN Return(TxResponse(h)) ELSE Raise("NotFoundError")

(***************************************************************************)
(* The contract executing the register messages of a transaction, in       *)
(* order: each sets the record of its agent, expiring at block e, which is *)
(* expiry_height blocks (the contract state's "expiry_height") after the   *)
(* block of the transaction.                                               *)
(***************************************************************************)
ApplyRegistrations(alm, msgs, e) ==
    [a \in Agents |->
        LET ks == {k \in 1..Len(msgs) : msgs[k].msg.register.agent_address = a} IN
        IF ks = {}
        THEN alm[a]
        ELSE LET k == CHOOSE x \in ks : \A y \in ks : y <= x IN
             [expiry |-> e,
              endpoints |-> msgs[k].msg.register.record.service.endpoints,
              protocols |-> msgs[k].msg.register.record.service.protocols]]

(***************************************************************************)
(* The ledger includes pending transaction h in a block.  The contract     *)
(* executes it (code 0) or rejects it (code 1).                            *)
(***************************************************************************)
LedgerInclude(h) ==
    /\ h \in 1..Len(txs)
    /\ ~txs[h].included
    /\ \E ok \in BOOLEAN :
        /\ txs' = [txs EXCEPT ![h].included = TRUE,
                              ![h].code = IF ok THEN 0 ELSE 1]
        /\ almanac' = IF ok THEN ApplyRegistrations(almanac, txs[h].msgs,
                                                    height + expiry_height)
                            ELSE almanac
    /\ UNCHANGED <<other, height, names, almanacs, domain_flags, domain_records, now, nu,
                   clientVars, pollVars>>

(***************************************************************************)
(* The ledger produces a block.                                            *)
(***************************************************************************)
LedgerBlock ==
    /\ height < MaxHeight
    /\ height' = height + 1
    /\ UNCHANGED <<other, almanac, names, almanacs, domain_flags, domain_records, txs, now, nu,
                   clientVars, pollVars>>

(***************************************************************************)
(* wait_for_tx_to_complete raising before the deadline.                    *)
(***************************************************************************)
Expired_early(d, t) == d >= t - 1

(***************************************************************************)
(* wait_for_tx_to_complete never giving up.                                *)
(***************************************************************************)
Expired_never(d, t) == FALSE

(***************************************************************************)
(* wait_for_tx_to_complete: delta >= timeout.                              *)
(***************************************************************************)
Expired(d, t) == d >= t

(***************************************************************************)
(* A poller that withdraws the transaction when it gives up.               *)
(***************************************************************************)
RaiseQueryTimeout_withdrawing ==
    /\ wpc' = "done"
    /\ call' = [call EXCEPT !.result = Raise("QueryTimeoutError")]
    /\ txs' = SubSeq(txs, 1, tx_hash - 1)

(***************************************************************************)
(* A poller that broadcasts the transaction again when it gives up.        *)
(***************************************************************************)
RaiseQueryTimeout_rebroadcasting ==
    /\ wpc' = "done"
    /\ call' = [call EXCEPT !.result = Raise("QueryTimeoutError")]
    /\ txs' = Append(txs, PendingTx(txs[tx_hash].msgs))

(***************************************************************************)
(* wait_for_tx_to_complete: raise QueryTimeoutError().  Nothing is sent to *)
(* the ledger; the transaction stays where it is.                          *)
(***************************************************************************)
RaiseQueryTimeout ==
    /\ wpc' = "done"
    /\ call' = [call EXCEPT !.result = Raise("QueryTimeoutError")]
    /\ UNCHANGED txs

(***************************************************************************)
(* wait_for_tx_to_complete up to its loop: the defaults of timeout and     *)
(* poll_period, and start.                                                 *)
(***************************************************************************)
WaitStart(h, t, p) ==
    /\ tx_hash' = h
    /\ timeout' = IF t = NoneVal THEN DEFAULT_QUERY_TIMEOUT_SECS ELSE t.val
    /\ poll_period' = IF p = NoneVal THEN DEFAULT_QUERY_INTERVAL_SECS ELSE p.val
    /\ start' = now
    /\ delta' = 0
    /\ polls' = 0
    /\ wpc' = "query"

(***************************************************************************)
(* A poller that looks at the deadline before it returns what it found.    *)
(***************************************************************************)
WaitPoll_deadline_first ==
    /\ wpc = "query"
    /\ \E d \in 0..MaxDelay :
        LET r == query_tx(tx_hash) IN
        /\ now' = now + d
        /\ polls' = polls + 1
        /\ delta' = now' - start
        /\ IF Expired(delta', timeout)
           THEN RaiseQueryTimeout
           ELSE IF r.kind = "return"
                THEN /\ wpc' = "done"
                     /\ call' = [call EXCEPT !.result = r]
                     /\ UNCHANGED txs
                ELSE /\ wpc' = "sleep"
                     /\ UNCHANGED <<call, txs>>
    /\ UNCHANGED <<other, chainVars, nu, self_address, records, pc, frec,
                   tx_hash, start, timeout, poll_period>>

(***************************************************************************)
(* wait_for_tx_to_complete, one turn of the loop up to the sleep: the      *)
(* query takes d; a response is returned to the caller; on NotFoundError   *)
(* delta is taken and QueryTimeoutError raised if it reached the timeout.  *)
(***************************************************************************)
WaitPoll ==
    /\ wpc = "query"
    /\ \E d \in 0..MaxDelay :
        LET r == query_tx(tx_hash) IN
        /\ now' = now + d
        /\ polls' = polls + 1
        /\ IF r.kind = "return"
           THEN /\ wpc' = "done"
                /\ call' = [call EXCEPT !.result = r]
                /\ UNCHANGED <<delta, txs>>
           ELSE /\ delta' = now' - start
                /\ IF Expired(delta', timeout)
                   THEN RaiseQueryTimeout
                   ELSE /\ wpc' = "sleep"
                        /\ UNCHANGED <<call, txs>>
    /\ UNCHANGED <<other, chainVars, nu, self_address, records, pc, frec,
                   tx_hash, start, timeout, poll_period>>

(***************************************************************************)
(* wait_for_tx_to_complete: asyncio.sleep(poll_period) ends, after         *)
(* poll_period or later.                                                   *)
(***************************************************************************)
WaitWake ==
    /\ wpc = "sleep"
    /\ \E j \in 0..MaxDelay : now' = now + poll_period + j
    /\ wpc' = "query"
    /\ UNCHANGED <<other, chainVars, txs, nu, clientVars,
                   tx_hash, start, timeout, poll_period, delta, polls>>

(***************************************************************************)
(* register and register_batch after their await: the response is dropped  *)
(* and the call returns, or the QueryTimeoutError goes on to the caller.   *)
(* The poller's frame is gone.                                             *)
(***************************************************************************)
Resume ==
    /\ pc = "waiting"
    /\ wpc = "done"
    /\ call.op \in {"register", "register_batch", "name_register"}
    /\ pc' = "idle"
    /\ tx_hash' = 0
    /\ start' = 0
    /\ timeout' = 0
    /\ poll_period' = 0
    /\ delta' = 0
    /\ polls' = 0
    /\ UNCHANGED <<other, chainVars, txs, now, nu, self_address, records, frec, call, wpc>>

(***************************************************************************)
(* SpecPoll: one wait_for_tx_to_complete call on a broadcast transaction,  *)
(* for every timeout and poll period, against a ledger that includes the   *)
(* transaction at any moment or never.  The clock unit is the shortest     *)
(* poll period.                                                            *)
(***************************************************************************)
InitPoll ==
    /\ almanac = [a \in Agents |-> NoRecord]
    /\ height = 0
    /\ names = NoNames
    /\ NoNameService
    /\ txs = <<PendingTx(<<>>)>>
    /\ now = 0
    /\ self_address = Some(ContractAddress)
    /\ records = [a \in Agents |-> NoneVal]
    /\ nu = NoCall
    /\ other = NoOther
    /\ pc = "waiting"
    /\ frec = NoneVal
    /\ call = [op |-> "wait_for_tx_to_complete", result |-> NoneVal]
    /\ tx_hash = 1
    /\ start = now
    /\ \E t \in {NoneVal} \cup {Some(x) : x \in 0..MaxTimeout} :
           timeout = IF t = NoneVal THEN DEFAULT_QUERY_TIMEOUT_SECS ELSE t.val
    /\ \E p \in {NoneVal} \cup {Some(x) : x \in 1..MaxPoll} :
           poll_period = IF p = NoneVal THEN DEFAULT_QUERY_INTERVAL_SECS ELSE p.val
    /\ delta = 0
    /\ polls = 0
    /\ wpc = "query"

NextPoll ==
    \/ WaitPoll
    \/ WaitWake
    \/ LedgerInclude(1)

SpecPoll == InitPoll /\ [][NextPoll]_vars

(***************************************************************************)
(* The event loop runs a coroutine that can run, and a sleep ends.         *)
(***************************************************************************)
SpecPollFair == SpecPoll /\ WF_vars(WaitPoll) /\ WF_vars(WaitWake)

(***************************************************************************)
(* AlmanacContractRecord as constructed: timestamp and signature None.     *)
(***************************************************************************)
AlmanacContractRecord(a, ps, es) ==
    [address |-> a,
     protocols |-> ps,
     endpoints |-> es,
     contract_address |-> ContractAddress,
     sender_address |-> Wallet,
     timestamp |-> NoneVal,
     signature |-> NoneVal]

(***************************************************************************)
(* Identity.sign_registration: the signature of an identity over           *)
(* (contract address, timestamp, sender address).                          *)
(***************************************************************************)
sign_registration(identity, contract_address, ts, sender_address) ==
    <<"sig", identity, contract_address, ts, sender_address>>

(***************************************************************************)
(* AlmanacContractRecord.sign.  The timestamp is assigned first; when the  *)
(* signer raises, the assignment of the signature does not happen.         *)
(***************************************************************************)
sign(record, identity, signer_ok) ==
    LET ts == now - ALMANAC_REGISTRATION_WAIT IN
    [record EXCEPT
        !.timestamp = Some(ts),
        !.signature = IF signer_ok
                      THEN Some(sign_registration(identity, record.contract_address,
                                                  ts, record.sender_address))
                      ELSE @]

(***************************************************************************)
(* AlmanacContract.get_registration_msg.                                   *)
(***************************************************************************)
get_registration_msg(protocols, endpoints, signature, sequence, address) ==
    [register |->
        [record |->
            [service |->
                [protocols |-> protocols,
                 endpoints |-> [i \in 1..Len(endpoints) |-> model_dump(endpoints[i])]]],
         signature |-> signature,
         sequence |-> sequence,
         agent_address |-> address]]

(***************************************************************************)
(* create_cosmwasm_execute_msg(wallet.address(), self.address, msg,        *)
(* funds=f"{REGISTRATION_FEE}{denom}").                                    *)
(***************************************************************************)
create_cosmwasm_execute_msg(sender, contract, msg, funds) ==
    [sender |-> sender, contract |-> contract, msg |-> msg, funds |-> funds]

RegistrationFunds == <<REGISTRATION_FEE, FeeDenomination>>

(***************************************************************************)
(* register_batch's loop leaving out the records that are not signed.      *)
(***************************************************************************)
RECURSIVE build_batch_skipping(_, _, _)
build_batch_skipping(agent_records, k, msgs) ==
    IF k > Len(agent_records)
    THEN Return(msgs)
    ELSE LET record == agent_records[k] IN
         IF record.timestamp = NoneVal \/ record.signature = NoneVal
         THEN build_batch_skipping(agent_records, k + 1, msgs)
         ELSE build_batch_skipping(agent_records, k + 1,
                  Append(msgs,
                      create_cosmwasm_execute_msg(
                          Wallet, self_address.val,
                          get_registration_msg(record.protocols, record.endpoints,
                                               record.signature.val, record.timestamp.val,
                                               record.address),
                          RegistrationFunds)))

(***************************************************************************)
(* A register_batch loop that puts each message before the earlier ones.   *)
(***************************************************************************)
RECURSIVE build_batch_prepending(_, _, _)
build_batch_prepending(agent_records, k, msgs) ==
    IF k > Len(agent_records)
    THEN Return(msgs)
    ELSE LET record == agent_records[k] IN
         IF record.timestamp = NoneVal
         THEN Raise("ValueError")
         ELSE IF record.signature = NoneVal
         THEN Raise("ValueError")
         ELSE build_batch_prepending(agent_records, k + 1,
                  <<create_cosmwasm_execute_msg(
                        Wallet, self_address.val,
                        get_registration_msg(record.protocols, record.endpoints,
                                             record.signature.val, record.timestamp.val,
                                             record.address),
                        RegistrationFunds)>> \o msgs)

(***************************************************************************)
(* A register_batch loop that attaches the fee to the first message only.  *)
(***************************************************************************)
RECURSIVE build_batch_fee_once(_, _, _)
build_batch_fee_once(agent_records, k, msgs) ==
    IF k > Len(agent_records)
    THEN Return(msgs)
    ELSE LET record == agent_records[k] IN
         IF record.timestamp = NoneVal
         THEN Raise("ValueError")
         ELSE IF record.signature = NoneVal
         THEN Raise("ValueError")
         ELSE build_batch_fee_once(agent_records, k + 1,
                  Append(msgs,
                      create_cosmwasm_execute_msg(
                          Wallet, self_address.val,
                          get_registration_msg(record.protocols, record.endpoints,
                                               record.signature.val, record.timestamp.val,
                                               record.address),
                          IF k = 1 THEN RegistrationFunds ELSE <<0, FeeDenomination>>)))

(***************************************************************************)
(* register_batch's loop from record k on, msgs being the messages added   *)
(* to the transaction so far: the messages of the whole list, or the       *)
(* ValueError of the first record without timestamp or signature.          *)
(***************************************************************************)
RECURSIVE build_batch(_, _, _)
build_batch(agent_records, k, msgs) ==
    IF k > Len(agent_records)
    THEN Return(msgs)
    ELSE LET record == agent_records[k] IN
         IF record.timestamp = NoneVal
         THEN Raise("ValueError")
         ELSE IF record.signature = NoneVal
         THEN Raise("ValueError")
         ELSE build_batch(agent_records, k + 1,
                  Append(msgs,
                      create_cosmwasm_execute_msg(
                          Wallet, self_address.val,
                          get_registration_msg(record.protocols, record.endpoints,
                                               record.signature.val, record.timestamp.val,
                                               record.address),
                          RegistrationFunds)))

(***************************************************************************)
(* The caller starts calls until MaxTx (MaxBatches) transactions have been *)
(* broadcast.                                                              *)
(***************************************************************************)
CanCall == Len(txs) < MaxTx
CanCallBatch == Len(txs) < MaxBatches

(***************************************************************************)
(* A register that does not look at the contract address.                  *)
(***************************************************************************)
register_unchecked(agent_address, protocols, endpoints, signature, current_time) ==
    LET args == [agent_address |-> agent_address,
                 protocols |-> protocols,
                 endpoints |-> endpoints,
                 signature |-> signature,
                 current_time |-> current_time]
        almanac_msg == get_registration_msg(protocols, endpoints, signature,
                                            current_time, agent_address)
        transaction == <<create_cosmwasm_execute_msg(
                             Wallet, self_address, almanac_msg,
                             RegistrationFunds)>>
    IN /\ txs' = Append(txs, PendingTx(transaction))
       /\ call' = [op |-> "register", args |-> args, tx |-> Len(txs) + 1,
                   result |-> NoneVal]
       /\ pc' = "waiting"
       /\ WaitStart(Len(txs) + 1, Some(DEFAULT_LEDGER_TX_WAIT_SECONDS), NoneVal)

(***************************************************************************)
(* AlmanacContract.register up to its await: ValueError without a contract *)
(* address; else one message, broadcast, and the wait for the transaction  *)
(* begins with timeout DEFAULT_LEDGER_TX_WAIT_SECONDS.                     *)
(***************************************************************************)
register(agent_address, protocols, endpoints, signature, current_time) ==
    LET args == [agent_address |-> agent_address,
                 protocols |-> protocols,
                 endpoints |-> endpoints,
                 signature |-> signature,
                 current_time |-> current_time]
    IN
    IF self_address = NoneVal
    THEN /\ call' = [op |-> "register", args |-> args, tx |-> 0,
                     result |-> Raise("ValueError")]
         /\ pc' = "idle"
         /\ UNCHANGED <<txs, pollVars>>
    ELSE LET almanac_msg == get_registration_msg(protocols, endpoints, signature,
                                                 current_time, agent_address)
             transaction == <<create_cosmwasm_execute_msg(
                                  Wallet, self_address.val, almanac_msg,
                                  RegistrationFunds)>>
         IN /\ txs' = Append(txs, PendingTx(transaction))
            /\ call' = [op |-> "register", args |-> args, tx |-> Len(txs) + 1,
                        result |-> NoneVal]
            /\ pc' = "waiting"
            /\ WaitStart(Len(txs) + 1, Some(DEFAULT_LEDGER_TX_WAIT_SECONDS), NoneVal)

(***************************************************************************)
(* AlmanacContract.register_batch up to its await, on the caller's records *)
(* of the agents listed: ValueError without a contract address or with a   *)
(* record that lacks timestamp or signature; else the messages of all the  *)
(* records in one transaction, broadcast, and the wait begins.             *)
(***************************************************************************)
RegisterBatch ==
    /\ pc = "idle"
    /\ CanCallBatch
    /\ \E agents \in BoundedSeq(Agents, MaxBatch) :
        LET agent_records == [k \in 1..Len(agents) |-> records[agents[k]]]
            transaction == IF self_address = NoneVal
                           THEN Raise("ValueError")
                           ELSE build_batch(agent_records, 1, <<>>)
        IN
        IF transaction.kind = "raise"
        THEN /\ call' = [op |-> "register_batch", args |-> agent_records, tx |-> 0,
                         result |-> transaction]
             /\ UNCHANGED <<txs, pc, pollVars>>
        ELSE /\ txs' = Append(txs, PendingTx(transaction.value))
             /\ call' = [op |-> "register_batch", args |-> agent_records,
                         tx |-> Len(txs) + 1, result |-> NoneVal]
             /\ pc' = "waiting"
             /\ WaitStart(Len(txs) + 1, Some(DEFAULT_LEDGER_TX_WAIT_SECONDS), NoneVal)
    /\ UNCHANGED <<other, chainVars, now, nu, self_address, records, frec>>

(***************************************************************************)
(* A call of AlmanacContractRecord.sign on the record of agent a, with     *)
(* the agent's identity, whose signer answers or raises.                   *)
(***************************************************************************)
Sign ==
    /\ pc = "idle"
    /\ CanCallBatch
    /\ \E a \in Agents, signer_ok \in BOOLEAN :
           records' = [records EXCEPT ![a] = sign(records[a], a, signer_ok)]
    /\ UNCHANGED <<other, chainVars, txs, now, nu, self_address, pc, frec, call, pollVars>>

(***************************************************************************)
(* A call of AlmanacContract.register with the signed record of an agent.  *)
(***************************************************************************)
RegisterSigned ==
    /\ pc = "idle"
    /\ CanCallBatch
    /\ \E a \in Agents :
        /\ records[a].timestamp # NoneVal
        /\ records[a].signature # NoneVal
        /\ register(records[a].address, records[a].protocols, records[a].endpoints,
                    records[a].signature.val, records[a].timestamp.val)
    /\ UNCHANGED <<other, chainVars, now, nu, self_address, records, frec>>

(***************************************************************************)
(* The registration flow of an agent (the spec's Registration Planner),    *)
(* first step: registration_needs_update for the agent's record.           *)
(***************************************************************************)
FlowNeedsUpdate ==
    /\ pc = "idle"
    /\ CanCall
    /\ \E a \in FlowAgents, min_seconds_left \in MinSecondsLeft :
        /\ frec' = Some(a)
        /\ NeedsUpdateCall(a, records[a].endpoints, records[a].protocols,
                           min_seconds_left)
    /\ pc' = "decided"
    /\ UNCHANGED <<other, chainVars, txs, now, self_address, records, call, pollVars>>

(***************************************************************************)
(* The flow ends without a transaction: registration_needs_update          *)
(* returned false, or raised.                                              *)
(***************************************************************************)
FlowSkip ==
    /\ pc = "decided"
    /\ nu.result # Return(TRUE)
    /\ pc' = "idle"
    /\ UNCHANGED <<other, chainVars, txs, now, nu, self_address, records, frec, call, pollVars>>

(***************************************************************************)
(* The flow signs the record with the agent's identity; a raising signer   *)
(* ends the flow.                                                          *)
(***************************************************************************)
FlowSign ==
    /\ pc = "decided"
    /\ nu.result = Return(TRUE)
    /\ \E signer_ok \in BOOLEAN :
        /\ records' = [records EXCEPT
                          ![frec.val] = sign(records[frec.val], frec.val, signer_ok)]
        /\ pc' = IF signer_ok THEN "signed" ELSE "idle"
    /\ UNCHANGED <<other, chainVars, txs, now, nu, self_address, frec, call, pollVars>>

(***************************************************************************)
(* The flow calls register with the signed record.                         *)
(***************************************************************************)
FlowRegister ==
    /\ pc = "signed"
    /\ LET record == records[frec.val] IN
       register(record.address, record.protocols, record.endpoints,
                record.signature.val, record.timestamp.val)
    /\ UNCHANGED <<other, chainVars, now, nu, self_address, records, frec>>

(***************************************************************************)
(* The caller's records as constructed, all for the same desired service.  *)
(***************************************************************************)
FreshRecords(ps, es) == [a \in Agents |-> AlmanacContractRecord(a, ps, es)]

(***************************************************************************)
(* The services the callers want registered: none, and one with two        *)
(* endpoints.                                                              *)
(***************************************************************************)
DesiredServices ==
    {<<(<<>>), (<<>>)>>,
     <<(<<"proto1">>), (<<(<<"a", 1>>), (<<"b", 2>>)>>)>>}

(***************************************************************************)
(* SpecBatch: records are signed and registered in batches.                *)
(***************************************************************************)
InitBatch ==
    /\ almanac = [a \in Agents |-> NoRecord]
    /\ height = 0
    /\ names = NoNames
    /\ NoNameService
    /\ txs = <<>>
    /\ now = 0
    /\ self_address \in {Some(ContractAddress), NoneVal}
    /\ \E d \in DesiredServices : records = FreshRecords(d[1], d[2])
    /\ nu = NoCall
    /\ other = NoOther
    /\ pc = "idle"
    /\ frec = NoneVal
    /\ call = NoCall
    /\ NoWait

NextBatch ==
    \/ Sign
    \/ RegisterBatch
    \/ WaitPoll
    \/ WaitWake
    \/ Resume
    \/ \E h \in 1..MaxTx : LedgerInclude(h)
    \/ LedgerBlock

SpecBatch == InitBatch /\ [][NextBatch]_vars

(***************************************************************************)
(* SpecRegister: records that sign has left fresh (never signed), with a   *)
(* timestamp only (the signer raised) or signed are registered, one by one *)
(* with register and in batches with register_batch, with and without a    *)
(* contract address.                                                       *)
(***************************************************************************)
InitRegister ==
    /\ almanac = [a \in Agents |-> NoRecord]
    /\ height = 0
    /\ names = NoNames
    /\ NoNameService
    /\ txs = <<>>
    /\ now = 0
    /\ self_address \in {Some(ContractAddress), NoneVal}
    /\ \E d \in DesiredServices :
           records \in [Agents -> UNION {{FreshRecords(d[1], d[2])[a],
                                          sign(FreshRecords(d[1], d[2])[a], a, FALSE),
                                          sign(FreshRecords(d[1], d[2])[a], a, TRUE)} :
                                         a \in Agents}]
           /\ \A a \in Agents : records[a].address = a
    /\ nu = NoCall
    /\ other = NoOther
    /\ pc = "idle"
    /\ frec = NoneVal
    /\ call = NoCall
    /\ NoWait

NextRegister ==
    \/ RegisterSigned
    \/ RegisterBatch
    \/ WaitPoll
    \/ WaitWake
    \/ Resume
    \/ \E h \in 1..MaxTx : LedgerInclude(h)

SpecRegister == InitRegister /\ [][NextRegister]_vars

(***************************************************************************)
(* Spec: registration flows of agents that may be registered already,      *)
(* with an empty service.                                                  *)
(***************************************************************************)
RegisteredBefore ==
    {r \in ChainRecords : r.endpoints = <<>> /\ r.protocols = <<>>}

Init ==
    /\ \E r \in RegisteredBefore \cup {NoRecord} : almanac = [a \in Agents |-> r]
    /\ height = 0
    /\ names = NoNames
    /\ NoNameService
    /\ txs = <<>>
    /\ now = 0
    /\ self_address \in {Some(ContractAddress), NoneVal}
    /\ \E d \in DesiredServices : records = FreshRecords(d[1], d[2])
    /\ nu = NoCall
    /\ other = NoOther
    /\ pc = "idle"
    /\ frec = NoneVal
    /\ call = NoCall
    /\ NoWait

Next ==
    \/ FlowNeedsUpdate
    \/ FlowSkip
    \/ FlowSign
    \/ FlowRegister
    \/ WaitPoll
    \/ WaitWake
    \/ Resume
    \/ \E h \in 1..MaxTx : LedgerInclude(h)
    \/ LedgerBlock

Spec == Init /\ [][Next]_vars

(***************************************************************************)
(* NameServiceContract.is_name_available and is_owner: the contract's      *)
(* answers to query_domain_record and to permissions.                      *)
(***************************************************************************)
is_name_available(name, domain) == names[FullName(name, domain)].is_available

is_owner(name, domain, wallet_address) ==
    LET permission == names[FullName(name, domain)].permissions[wallet_address] IN
    permission = "admin"

(***************************************************************************)
(* A get_registration_tx that asks for ownership first.                    *)
(***************************************************************************)
get_registration_tx_owner_first(name, wallet_address, agent_records, domain, network) ==
    LET contract == IF network = "mainnet" THEN MAINNET_CONTRACT_NAME_SERVICE
                                           ELSE TESTNET_CONTRACT_NAME_SERVICE
        amount == int(price_per_second.amount) * 86400
        denom == price_per_second.denom
        registration_msg == [register |-> [domain |-> FullName(name, domain)]]
        record_msg == [update_record |-> [domain |-> FullName(name, domain),
                                          agent_records |-> agent_records]]
        purchase == create_cosmwasm_execute_msg(wallet_address, contract,
                                                registration_msg, <<amount, denom>>)
        update == create_cosmwasm_execute_msg(wallet_address, contract,
                                              record_msg, NoneVal)
    IN  IF ~is_owner(name, domain, wallet_address)
        THEN Return(NoneVal)
        ELSE IF is_name_available(name, domain)
             THEN Return(Some([msgs |-> <<purchase, update>>]))
             ELSE Return(Some([msgs |-> <<update>>]))

(***************************************************************************)
(* NameServiceContract.get_registration_tx.  The Transaction is the        *)
(* sequence of its messages; funds f"{amount}{denom}" is the pair.         *)
(***************************************************************************)
get_registration_tx(name, wallet_address, agent_records, domain, network) ==
    LET contract == IF network = "mainnet" THEN MAINNET_CONTRACT_NAME_SERVICE
                                           ELSE TESTNET_CONTRACT_NAME_SERVICE
        amount == int(price_per_second.amount) * 86400
        denom == price_per_second.denom
        registration_msg == [register |-> [domain |-> FullName(name, domain)]]
        record_msg == [update_record |-> [domain |-> FullName(name, domain),
                                          agent_records |-> agent_records]]
        purchase == create_cosmwasm_execute_msg(wallet_address, contract,
                                                registration_msg, <<amount, denom>>)
        update == create_cosmwasm_execute_msg(wallet_address, contract,
                                              record_msg, NoneVal)
    IN  IF is_name_available(name, domain)
        THEN Return(Some([msgs |-> <<purchase, update>>]))
        ELSE IF ~is_owner(name, domain, wallet_address)
             THEN Return(NoneVal)
             ELSE Return(Some([msgs |-> <<update>>]))

(***************************************************************************)
(* A caller asks for the registration transaction of a name.               *)
(***************************************************************************)
GetRegistrationTx ==
    /\ pc = "idle"
    /\ \E name \in Names, domain \in Domains, wallet_address \in Wallets,
          agent_records \in {<<>>, <<"agent1">>}, network \in Networks :
        call' = [op |-> "get_registration_tx",
                 args |-> [name |-> name, wallet_address |-> wallet_address,
                           agent_records |-> agent_records, domain |-> domain,
                           network |-> network],
                 result |-> get_registration_tx(name, wallet_address, agent_records,
                                                domain, network)]
    /\ UNCHANGED <<other, chainVars, txs, now, nu, self_address, records, pc, frec, pollVars>>

(***************************************************************************)
(* SpecNS: get_registration_tx against every state of the name service.    *)
(***************************************************************************)
InitNS ==
    /\ almanac = [a \in Agents |-> NoRecord]
    /\ height = 0
    /\ names \in [FullNames -> NameRecords]
    /\ NoNameService
    /\ txs = <<>>
    /\ now = 0
    /\ self_address = Some(ContractAddress)
    /\ records = [a \in Agents |-> NoneVal]
    /\ nu = NoCall
    /\ other = NoOther
    /\ pc = "idle"
    /\ frec = NoneVal
    /\ call = NoCall
    /\ NoWait

NextNS == call = NoCall /\ GetRegistrationTx

SpecNS == InitNS /\ [][NextNS]_vars

(***************************************************************************)
(* AlmanacContract.check_version of the contract instance of a network: a  *)
(* version that differs, or a query that fails, gives False.               *)
(***************************************************************************)
check_version(network) ==
    LET deployed_version == almanacs[network].contract_version IN
    IF deployed_version = NoneVal
    THEN FALSE
    ELSE deployed_version.val = ALMANAC_CONTRACT_VERSION

(***************************************************************************)
(* get_almanac_contract.  A contract instance is named by its network.     *)
(***************************************************************************)
get_almanac_contract(network) ==
    IF network = "mainnet" /\ check_version("mainnet")
    THEN Some("mainnet")
    ELSE IF check_version("testnet")
         THEN Some("testnet")
         ELSE NoneVal

(***************************************************************************)
(* AlmanacContract.is_registered of the contract instance of a network.    *)
(***************************************************************************)
is_registered_on(network, address) == address \in almanacs[network].registered

(***************************************************************************)
(* parse_record_config.  A str is [tag |-> "str", val |-> address], a list *)
(* [tag |-> "list", val |-> addresses], a dict [tag |-> "dict", val |->    *)
(* the items <<address, weight or None>> in order]; anything else None.    *)
(***************************************************************************)
parse_record_config(record) ==
    IF record.tag = "dict"
    THEN Some([k \in 1..Len(record.val) |->
                 [address |-> record.val[k][1],
                  weight |-> IF record.val[k][2] = NoneVal \/ record.val[k][2] = Some(0)
                             THEN 1 ELSE record.val[k][2].val]])
    ELSE IF record.tag = "list"
    THEN Some([k \in 1..Len(record.val) |-> [address |-> record.val[k], weight |-> 1]])
    ELSE IF record.tag = "str"
    THEN Some(<<[address |-> record.val, weight |-> 1]>>)
    ELSE NoneVal

(***************************************************************************)
(* NameServiceContract.is_domain_public.  The domains of the model have    *)
(* one label, which split(".")[-1] returns.                                *)
(***************************************************************************)
is_domain_public(domain) ==
    LET res == domain_flags[domain] IN
    IF res # NoneVal THEN res.val.web3_flags.is_public ELSE FALSE

(***************************************************************************)
(* NameServiceContract.get_previous_records.                               *)
(***************************************************************************)
get_previous_records(name, domain) ==
    LET result == domain_records[FullName(name, domain)] IN
    IF result # NoneVal THEN result.val ELSE <<>>

(***************************************************************************)
(* f"{rec['address']}_{rec['weight']}": a string is the sequence of its    *)
(* pieces, so that two strings are equal when their characters are.        *)
(***************************************************************************)
StrOfAddress(address) ==
    CASE address = "agent1" -> <<"agent1">>
      [] address = "agent2" -> <<"agent2">>
      [] address = "agent1_1" -> <<"agent1", "_", "1">>
StrOfInt(n) ==
    CASE n = 0 -> <<"0">> [] n = 1 -> <<"1">> [] n = 2 -> <<"2">> [] n = 3 -> <<"3">>
address_weight(rec) == StrOfAddress(rec.address) \o <<"_">> \o StrOfInt(rec.weight)

(***************************************************************************)
(* {key(rec): rec for rec in recs}: a dict as the sequence of its items; a *)
(* key met again keeps its place and takes the new value.                  *)
(***************************************************************************)
RECURSIVE dict_by_key(_, _, _)
dict_by_key(recs, k, items) ==
    IF k > Len(recs)
    THEN items
    ELSE LET key == address_weight(recs[k])
             at == {i \in 1..Len(items) : items[i][1] = key}
         IN IF at = {}
            THEN dict_by_key(recs, k + 1, Append(items, <<key, recs[k]>>))
            ELSE dict_by_key(recs, k + 1,
                             [i \in 1..Len(items) |->
                                 IF i \in at THEN <<key, recs[k]>> ELSE items[i]])

(***************************************************************************)
(* A merge that appends the new records to the previous ones.              *)
(***************************************************************************)
merge_records_appending(previous_records, new_records) == previous_records \o new_records

(***************************************************************************)
(* list({...}.values()) over previous_records + records.                   *)
(***************************************************************************)
merge_records(previous_records, new_records) ==
    LET items == dict_by_key(previous_records \o new_records, 1, <<>>) IN
    [i \in 1..Len(items) |-> items[i][2]]

(***************************************************************************)
(* NameServiceContract.register up to its await, as what it returns or     *)
(* raises before it, or the transaction it broadcasts.                     *)
(***************************************************************************)
name_register_unchecked(chain_id, wallet_address, agent_records, name, domain, overwrite) ==
    LET network == IF chain_id = "fetchhub-4" THEN "mainnet" ELSE "testnet"
        parsed == parse_record_config(agent_records)
        previous_records == IF overwrite
                            THEN NoneVal
                            ELSE Some(get_previous_records(name, domain))
        records_ == IF overwrite
                   THEN parsed.val
                   ELSE merge_records(previous_records.val, parsed.val)
        transaction == get_registration_tx(name, wallet_address, records_, domain, network)
    IN  IF parsed = NoneVal \/ parsed.val = <<>>
        THEN [outcome |-> Raise("ValueError"), log |-> "none"]
        ELSE IF transaction.value = NoneVal
        THEN [outcome |-> Return(NoneVal), log |-> "owned by another address"]
        ELSE [outcome |-> NoneVal, log |-> "none", records |-> records_,
              previous_records |-> previous_records,
              transaction |-> transaction.value.val]

(***************************************************************************)
(* A register that merges with the previous records whatever overwrite is. *)
(***************************************************************************)
name_register_merging(chain_id, wallet_address, agent_records, name, domain, overwrite) ==
    LET network == IF chain_id = "fetchhub-4" THEN "mainnet" ELSE "testnet"
        parsed == parse_record_config(agent_records)
        agent_addresses == [k \in 1..Len(parsed.val) |-> parsed.val[k].address]
        contract == get_almanac_contract(network)
        previous_records == Some(get_previous_records(name, domain))
        records_ == merge_records(previous_records.val, parsed.val)
        transaction == get_registration_tx(name, wallet_address, records_, domain, network)
    IN  IF parsed = NoneVal \/ parsed.val = <<>>
        THEN [outcome |-> Raise("ValueError"), log |-> "none"]
        ELSE IF contract = NoneVal
        THEN [outcome |-> Raise("AttributeError"), log |-> "none"]
        ELSE IF \E k \in 1..Len(agent_addresses) :
                    ~is_registered_on(contract.val, agent_addresses[k])
        THEN [outcome |-> Return(NoneVal), log |-> "needs to be registered in almanac"]
        ELSE IF ~is_domain_public(domain)
        THEN [outcome |-> Return(NoneVal), log |-> "domain is not public"]
        ELSE IF transaction.value = NoneVal
        THEN [outcome |-> Return(NoneVal), log |-> "owned by another address"]
        ELSE [outcome |-> NoneVal, log |-> "none", records |-> records_,
              previous_records |-> previous_records,
              transaction |-> transaction.value.val]

(***************************************************************************)
(* NameServiceContract.register up to its await.  previous_records is the  *)
(* local of that name: None when get_previous_records was not called.      *)
(***************************************************************************)
name_register(chain_id, wallet_address, agent_records, name, domain, overwrite) ==
    LET network == IF chain_id = "fetchhub-4" THEN "mainnet" ELSE "testnet"
        parsed == parse_record_config(agent_records)
        agent_addresses == [k \in 1..Len(parsed.val) |-> parsed.val[k].address]
        contract == get_almanac_contract(network)
        previous_records == IF overwrite
                            THEN NoneVal
                            ELSE Some(get_previous_records(name, domain))
        records_ == IF overwrite
                   THEN parsed.val
                   ELSE merge_records(previous_records.val, parsed.val)
        transaction == get_registration_tx(name, wallet_address, records_, domain, network)
    IN  IF parsed = NoneVal \/ parsed.val = <<>>
        THEN [outcome |-> Raise("ValueError"), log |-> "none"]
        ELSE IF contract = NoneVal
        THEN [outcome |-> Raise("AttributeError"), log |-> "none"]
        ELSE IF \E k \in 1..Len(agent_addresses) :
                    ~is_registered_on(contract.val, agent_addresses[k])
        THEN [outcome |-> Return(NoneVal), log |-> "needs to be registered in almanac"]
        ELSE IF ~is_domain_public(domain)
        THEN [outcome |-> Return(NoneVal), log |-> "domain is not public"]
        ELSE IF transaction.value = NoneVal
        THEN [outcome |-> Return(NoneVal), log |-> "owned by another address"]
        ELSE [outcome |-> NoneVal, log |-> "none", records |-> records_,
              previous_records |-> previous_records,
              transaction |-> transaction.value.val]

(***************************************************************************)
(* The ledgers' chain ids, the record configurations callers give, and the *)
(* records the name service may hold for a name.                           *)
(***************************************************************************)
ChainIds == {"fetchhub-4", "dorado-1"}
RecordConfigs ==
    {NoneVal,
     [tag |-> "str", val |-> "agent1"],
     [tag |-> "list", val |-> <<>>],
     [tag |-> "list", val |-> <<"agent1", "agent2">>],
     [tag |-> "dict", val |-> <<(<<"agent1", Some(2)>>), (<<"agent1_1", NoneVal>>)>>],
     [tag |-> "dict", val |-> <<(<<"agent1", Some(0)>>), (<<"agent2", Some(2)>>)>>]}
PreviousRecords ==
    {NoneVal,
     Some(<<[address |-> "agent1", weight |-> 1]>>),
     Some(<<[address |-> "agent1_1", weight |-> 1], [address |-> "agent1", weight |-> 2]>>)}

(***************************************************************************)
(* A call of NameServiceContract.register up to its await: it raises, or   *)
(* logs and returns, or broadcasts the transaction and begins the wait,    *)
(* with the default timeout and poll period.                               *)
(***************************************************************************)
NameRegister ==
    /\ pc = "idle"
    /\ call = NoCall
    /\ \E chain_id \in ChainIds, agent_records \in RecordConfigs,
          name \in {"alice"}, domain \in Domains, overwrite \in BOOLEAN :
        LET args == [chain_id |-> chain_id, wallet |-> Wallet,
                     agent_records |-> agent_records, name |-> name,
                     domain |-> domain, overwrite |-> overwrite]
            r == name_register(chain_id, Wallet, agent_records, name, domain, overwrite)
        IN
        IF r.outcome # NoneVal
        THEN /\ call' = [op |-> "name_register", args |-> args, tx |-> 0,
                         log |-> r.log, result |-> r.outcome]
             /\ UNCHANGED <<txs, pc, pollVars>>
        ELSE /\ txs' = Append(txs, PendingTx(r.transaction.msgs))
             /\ call' = [op |-> "name_register", args |-> args, tx |-> Len(txs) + 1,
                         log |-> r.log, previous_records |-> r.previous_records,
                         result |-> NoneVal]
             /\ pc' = "waiting"
             /\ WaitStart(Len(txs) + 1, NoneVal, NoneVal)
    /\ UNCHANGED <<other, chainVars, now, nu, self_address, records, frec>>

(***************************************************************************)
(* NameServiceContract.unregister up to wait_to_complete: nothing to do    *)
(* for a name that is available; else one remove_domain message is         *)
(* executed and the call blocks in wait_to_complete.                       *)
(***************************************************************************)
NameUnregister ==
    /\ pc = "idle"
    /\ call = NoCall
    /\ \E name \in {"alice"}, domain \in Domains :
        LET args == [name |-> name, domain |-> domain, wallet |-> Wallet]
            msg == [remove_domain |-> [domain |-> FullName(name, domain)]]
        IN
        IF is_name_available(name, domain)
        THEN /\ call' = [op |-> "unregister", args |-> args, tx |-> 0,
                         log |-> "nothing to unregister", result |-> Return(NoneVal)]
             /\ UNCHANGED <<txs, pc>>
        ELSE /\ txs' = Append(txs, PendingTx(<<create_cosmwasm_execute_msg(
                                  Wallet,
                                  TESTNET_CONTRACT_NAME_SERVICE, msg, NoneVal)>>))
             /\ call' = [op |-> "unregister", args |-> args, tx |-> Len(txs) + 1,
                         log |-> "none", result |-> NoneVal]
             /\ pc' = "unregistering"
    /\ UNCHANGED <<other, chainVars, now, nu, self_address, records, frec, pollVars>>

(***************************************************************************)
(* An unregister that returns without waiting for the transaction.         *)
(***************************************************************************)
UnregisterComplete_nowait ==
    /\ pc = "unregistering"
    /\ call' = [call EXCEPT !.result = Return(NoneVal), !.log = "complete"]
    /\ pc' = "idle"
    /\ UNCHANGED <<other, chainVars, txs, now, nu, self_address, records, frec, pollVars>>

(***************************************************************************)
(* wait_to_complete of the submitted transaction ends: it found the        *)
(* transaction, and unregister returns; or it gave up, and its error goes  *)
(* on to the caller.                                                       *)
(***************************************************************************)
UnregisterComplete ==
    /\ pc = "unregistering"
    /\ IF txs[call.tx].included
       THEN call' = [call EXCEPT !.result = Return(NoneVal), !.log = "complete"]
       ELSE call' = [call EXCEPT !.result = Raise("QueryTimeoutError")]
    /\ pc' = "idle"
    /\ UNCHANGED <<other, chainVars, txs, now, nu, self_address, records, frec, pollVars>>

(***************************************************************************)
(* The name service executing the messages of a transaction, in order:     *)
(* register gives the name to the sender, update_record sets its records,  *)
(* remove_domain frees it.                                                 *)
(***************************************************************************)
RECURSIVE ApplyNameMsgs(_, _, _)
ApplyNameMsgs(st, msgs, k) ==
    IF k > Len(msgs)
    THEN st
    ELSE LET m == msgs[k]
             op == CHOOSE o \in DOMAIN m.msg : TRUE
         IN CASE op = "register" ->
                   ApplyNameMsgs(
                       [st EXCEPT !.names[m.msg.register.domain] =
                            [is_available |-> FALSE,
                             permissions |-> [w \in Wallets |->
                                 IF w = m.sender THEN "admin" ELSE "none"]]],
                       msgs, k + 1)
              [] op = "update_record" ->
                   ApplyNameMsgs(
                       [st EXCEPT !.domain_records[m.msg.update_record.domain] =
                            Some(m.msg.update_record.agent_records)],
                       msgs, k + 1)
              [] op = "remove_domain" ->
                   ApplyNameMsgs(
                       [st EXCEPT !.names[m.msg.remove_domain.domain] =
                            [is_available |-> TRUE,
                             permissions |-> [w \in Wallets |-> "none"]],
                                  !.domain_records[m.msg.remove_domain.domain] = NoneVal],
                       msgs, k + 1)

(***************************************************************************)
(* The ledger includes pending name service transaction h in a block.  The *)
(* contract executes it (code 0) or rejects it (code 1).                   *)
(***************************************************************************)
LedgerIncludeName(h) ==
    /\ h \in 1..Len(txs)
    /\ ~txs[h].included
    /\ \E ok \in BOOLEAN :
        LET st == ApplyNameMsgs([names |-> names, domain_records |-> domain_records],
                                txs[h].msgs, 1)
        IN
        /\ txs' = [txs EXCEPT ![h].included = TRUE,
                              ![h].code = IF ok THEN 0 ELSE 1]
        /\ names' = IF ok THEN st.names ELSE names
        /\ domain_records' = IF ok THEN st.domain_records ELSE domain_records
    /\ UNCHANGED <<other, almanac, height, almanacs, domain_flags, now, nu, clientVars,
                   pollVars>>

(***************************************************************************)
(* SpecName: one NameServiceContract.register or unregister call for the   *)
(* name alice, against every state of the networks' Almanacs and of the    *)
(* name service.                                                           *)
(***************************************************************************)
InitName ==
    /\ almanac = [a \in Agents |-> NoRecord]
    /\ height = 0
    /\ \E r \in {x \in NameRecords : x.permissions["wallet2"] = "none"} :
           names = [NoNames EXCEPT ![FullName("alice", "agent")] = r]
    /\ almanacs \in [Networks -> [contract_version : DeployedVersions,
                                  registered : {{}, {"agent1"}, NameAddresses}]]
    /\ domain_flags \in [Domains -> DomainFlags]
    /\ \E p \in PreviousRecords :
           domain_records = [NoDomainRecords EXCEPT ![FullName("alice", "agent")] = p]
    /\ txs = <<>>
    /\ now = 0
    /\ self_address = Some(ContractAddress)
    /\ records = [a \in Agents |-> NoneVal]
    /\ nu = NoCall
    /\ other = NoOther
    /\ pc = "idle"
    /\ frec = NoneVal
    /\ call = NoCall
    /\ NoWait

NextName ==
    \/ NameRegister
    \/ NameUnregister
    \/ UnregisterComplete
    \/ WaitPoll
    \/ WaitWake
    \/ Resume
    \/ LedgerIncludeName(1)

SpecName == InitName /\ [][NextName]_vars

(***************************************************************************)
(* AlmanacContract.get_expiry: item 0 of what query_agent_record returns;  *)
(* the empty list has none.                                                *)
(***************************************************************************)
get_expiry(address) ==
    LET r == query_agent_record(address) IN
    IF Len(r) = 0 THEN Raise("IndexError") ELSE Return(r[1])

(***************************************************************************)
(* A caller asks for the Almanac contract of a network.                    *)
(***************************************************************************)
GetAlmanacContract ==
    /\ \E network \in Networks :
        call' = [op |-> "get_almanac_contract", args |-> [network |-> network],
                 result |-> Return(get_almanac_contract(network))]
    /\ UNCHANGED <<other, chainVars, txs, now, nu, self_address, records, pc, frec, pollVars>>

(***************************************************************************)
(* A caller asks for the seconds to expiry of an agent's registration.     *)
(***************************************************************************)
GetExpiry ==
    /\ \E address \in Agents :
        call' = [op |-> "get_expiry", args |-> [address |-> address],
                 response |-> query_records(address),
                 result |-> get_expiry(address)]
    /\ UNCHANGED <<other, chainVars, txs, now, nu, self_address, records, pc, frec, pollVars>>

(***************************************************************************)
(* SpecQuery: one get_almanac_contract or get_expiry call, against every   *)
(* deployed version of the networks' Almanacs and every state of the       *)
(* contract.                                                               *)
(***************************************************************************)
InitQuery ==
    /\ \E address \in Agents,
          r \in {x \in ChainRecords : x.endpoints = <<>> /\ x.protocols = <<>>}
                    \cup {NoRecord} :
           almanac = [a \in Agents |-> IF a = address THEN r ELSE NoRecord]
    /\ height \in 0..MaxHeight
    /\ names = NoNames
    /\ almanacs \in [Networks -> [contract_version : DeployedVersions,
                                  registered : {{}}]]
    /\ domain_flags = NoDomainFlags
    /\ domain_records = NoDomainRecords
    /\ txs = <<>>
    /\ now = 0
    /\ self_address = Some(ContractAddress)
    /\ records = [a \in Agents |-> NoneVal]
    /\ nu = NoCall
    /\ other = NoOther
    /\ pc = "idle"
    /\ frec = NoneVal
    /\ call = NoCall
    /\ NoWait

NextQuery == call = NoCall /\ (GetAlmanacContract \/ GetExpiry)

SpecQuery == InitQuery /\ [][NextQuery]_vars

(***************************************************************************)
(* A record that register_batch refuses.                                   *)
(***************************************************************************)
Incomplete(record) == record.timestamp = NoneVal \/ record.signature = NoneVal

(***************************************************************************)
(* A sleep that keeps the thread (time.sleep): the coroutine never yields. *)
(***************************************************************************)
Suspended_blocking(w) == FALSE

(***************************************************************************)
(* await asyncio.sleep(...): the coroutine of wait_for_tx_to_complete is   *)
(* suspended, and the event loop runs the other coroutines.  A coroutine   *)
(* keeps the thread from its resumption to its next await, so the loop is  *)
(* free when the first coroutine is not in a call, or is suspended.        *)
(***************************************************************************)
Suspended(w) == w = "sleep"

LoopFree == pc # "waiting" \/ Suspended(wpc)

(***************************************************************************)
(* A poll of the second coroutine's wait_for_tx_to_complete at time t, its *)
(* call having started at start_: the response, QueryTimeoutError, or the  *)
(* sleep until the next poll.                                              *)
(***************************************************************************)
OtherPolled(h, start_, polls_, r, t) ==
    IF r.kind = "return"
    THEN [pc |-> "done", tx |-> h, start |-> start_, polls |-> polls_ + 1,
          wake_at |-> 0, result |-> r]
    ELSE IF Expired(t - start_, DEFAULT_LEDGER_TX_WAIT_SECONDS)
    THEN [pc |-> "done", tx |-> h, start |-> start_, polls |-> polls_ + 1,
          wake_at |-> 0, result |-> Raise("QueryTimeoutError")]
    ELSE [pc |-> "sleep", tx |-> h, start |-> start_, polls |-> polls_ + 1,
          wake_at |-> t + DEFAULT_QUERY_INTERVAL_SECS, result |-> NoneVal]

(***************************************************************************)
(* The second coroutine calls AlmanacContract.register with a signed       *)
(* record while the first one waits for its transaction: it broadcasts,    *)
(* enters wait_for_tx_to_complete and polls once (the pending transaction  *)
(* is not found), all before its first await.                              *)
(***************************************************************************)
OtherRegister ==
    /\ LoopFree
    /\ pc = "waiting"
    /\ other = NoOther
    /\ self_address # NoneVal
    /\ \E a \in Agents \ FlowAgents, d \in 0..MaxDelay :
        LET record == records[a]
            almanac_msg == get_registration_msg(record.protocols, record.endpoints,
                                                record.signature.val,
                                                record.timestamp.val, record.address)
            transaction == <<create_cosmwasm_execute_msg(
                                 Wallet, self_address.val, almanac_msg,
                                 RegistrationFunds)>>
        IN /\ ~Incomplete(record)
           /\ txs' = Append(txs, PendingTx(transaction))
           /\ now' = now + d
           /\ other' = OtherPolled(Len(txs) + 1, now, 0, Raise("NotFoundError"), now')
    /\ UNCHANGED <<chainVars, nu, clientVars, pollVars>>

(***************************************************************************)
(* The second coroutine's sleep ends and it polls again.                   *)
(***************************************************************************)
OtherWake ==
    /\ LoopFree
    /\ other.pc = "sleep"
    /\ \E j \in 0..MaxDelay, d \in 0..MaxDelay :
        /\ now' = (IF now < other.wake_at THEN other.wake_at ELSE now) + j + d
        /\ other' = OtherPolled(other.tx, other.start, other.polls,
                                query_tx(other.tx), now')
    /\ UNCHANGED <<chainVars, txs, nu, clientVars, pollVars>>

(***************************************************************************)
(* Another coroutine calls registration_needs_update, a query call without *)
(* an await, while the first one waits for its transaction.                *)
(***************************************************************************)
OtherQuery ==
    /\ LoopFree
    /\ pc = "waiting"
    /\ nu = NoCall
    /\ \E a \in Agents \ FlowAgents :
        NeedsUpdateCall(a, records[a].endpoints, records[a].protocols, 0)
    /\ UNCHANGED <<other, chainVars, txs, now, clientVars, pollVars>>

(***************************************************************************)
(* SpecAsync: a register call whose transaction is awaited, and beside it  *)
(* a second register call and a query call of the same process, for an     *)
(* agent that has no registration flow of its own.                         *)
(***************************************************************************)
InitAsync ==
    /\ almanac = [a \in Agents |-> NoRecord]
    /\ height = 0
    /\ names = NoNames
    /\ NoNameService
    /\ txs = <<>>
    /\ now = 0
    /\ self_address = Some(ContractAddress)
    /\ \E d \in {x \in DesiredServices : x[2] # <<>>} :
           records = [a \in Agents |-> sign(FreshRecords(d[1], d[2])[a], a, TRUE)]
    /\ nu = NoCall
    /\ other = NoOther
    /\ pc = "idle"
    /\ frec = NoneVal
    /\ call = NoCall
    /\ NoWait

NextAsync ==
    \/ RegisterSigned
    \/ WaitPoll
    \/ WaitWake
    \/ Resume
    \/ OtherRegister
    \/ OtherWake
    \/ OtherQuery
    \/ \E h \in 1..MaxTx : LedgerInclude(h)

SpecAsync == InitAsync /\ [][NextAsync]_vars

(***************************************************************************)
(* C4: register_batch over a list in which any record, at any position,    *)
(* has no timestamp or no signature fails with an error before any         *)
(* transaction is broadcast and before any ledger call is made (the        *)
(* ledger, the contract and the poller are left as they were); a           *)
(* transaction that register_batch broadcasts holds one message for every  *)
(* record of the list, never a part of it.                                 *)
(***************************************************************************)
C4_BatchAllOrNothing ==
    /\ [][(/\ pc = "idle"
           /\ call' # call
           /\ call'.op = "register_batch"
           /\ \E k \in 1..Len(call'.args) : Incomplete(call'.args[k]))
          => (/\ call'.result = Raise("ValueError")
              /\ call'.tx = 0
              /\ pc' = "idle"
              /\ UNCHANGED <<txs, chainVars, nu, pollVars>>)]_vars
    /\ []((call.op = "register_batch" /\ call.tx # 0)
          => (/\ Len(txs[call.tx].msgs) = Len(call.args)
              /\ \A k \in 1..Len(call.args) : ~Incomplete(call.args[k])))

C4_Witness ==
    /\ call.op = "register_batch"
    /\ self_address # NoneVal
    /\ Len(call.args) = 2
    /\ ~Incomplete(call.args[1])
    /\ call.args[2].timestamp # NoneVal
    /\ call.args[2].signature = NoneVal
    /\ call.result = Raise("ValueError")
    /\ txs = <<>>
    /\ wpc = "done"
    /\ polls = 0

(***************************************************************************)
(* C5: after any sequence of sign operations, one with a failing signer    *)
(* included, timestamp and signature of a record are both set or both      *)
(* unset.  sign assigns the timestamp before it calls the signer.          *)
(***************************************************************************)
C5_SignedBothOrNeither ==
    \A a \in Agents :
        (records[a].timestamp = NoneVal) <=> (records[a].signature = NoneVal)

(***************************************************************************)
(* C8: a QueryTimeout of the poller does not mean that the transaction     *)
(* failed.  Giving up changes nothing on the ledger, no step of the client *)
(* withdraws or alters a broadcast transaction, and the transaction of a   *)
(* register call that timed out can still be included.                     *)
(***************************************************************************)
C8_TimeoutLeavesTransaction ==
    /\ [][/\ Len(txs') >= Len(txs)
          /\ \A h \in 1..Len(txs) :
                /\ txs'[h].msgs = txs[h].msgs
                /\ txs[h].included => txs'[h] = txs[h]
          /\ (wpc = "query" /\ wpc' = "done" /\ call'.result = Raise("QueryTimeoutError"))
                => (txs' = txs /\ almanac' = almanac)]_vars
    /\ []((/\ call.op = "register"
           /\ call.result = Raise("QueryTimeoutError")
           /\ ~txs[call.tx].included)
          => ENABLED LedgerInclude(call.tx))

C8_Witness ==
    /\ call.op = "register"
    /\ call.result = Raise("QueryTimeoutError")
    /\ pc = "idle"
    /\ call.tx # 0
    /\ txs[call.tx].included
    /\ txs[call.tx].code = 0
    /\ call.args.endpoints # <<>>
    /\ almanac[call.args.agent_address] # NoRecord
    /\ almanac[call.args.agent_address].endpoints =
           [i \in 1..Len(call.args.endpoints) |->
               [url |-> call.args.endpoints[i][1], weight |-> call.args.endpoints[i][2]]]

(***************************************************************************)
(* The service a register message asks for.                                *)
(***************************************************************************)
ServiceOf(tx) == tx.msgs[1].msg.register.record.service

(***************************************************************************)
(* C9: idempotence of the registration flow.  When a flow found            *)
(* registration_needs_update true and its register transaction was         *)
(* included and executed, a flow that follows it at once for the same      *)
(* agent, desired endpoints, protocols and min_seconds_left, and that       *)
(* finds the registration to last at least min_seconds_left, finds         *)
(* registration_needs_update false; and a flow that finds it false         *)
(* broadcasts nothing.                                                     *)
(***************************************************************************)
C9_SecondFlowIsIdle ==
    /\ [][(/\ pc = "idle"
           /\ pc' = "decided"
           /\ nu.op = "registration_needs_update"
           /\ nu.result = Return(TRUE)
           /\ call.op = "register"
           /\ call.tx # 0
           /\ call.args.agent_address = nu.address
           /\ call.args.endpoints = nu.endpoints
           /\ call.args.protocols = nu.protocols
           /\ txs[call.tx].included
           /\ txs[call.tx].code = 0
           /\ \A g \in 1..Len(txs) :
                 (txs[g].included /\ txs[g].code = 0)
                     => ServiceOf(txs[g]) = ServiceOf(txs[call.tx])
           /\ nu'.address = nu.address
           /\ nu'.endpoints = nu.endpoints
           /\ nu'.protocols = nu.protocols
           /\ nu'.min_seconds_left = nu.min_seconds_left
           /\ nu'.response.record # <<>>
           /\ (nu'.response.record[1].expiry - nu'.response.height)
                  * AVERAGE_BLOCK_INTERVAL >= nu'.min_seconds_left)
          => nu'.result = Return(FALSE)]_vars
    /\ [][(pc = "decided" /\ nu.result = Return(FALSE))
          => (Len(txs') = Len(txs) /\ call' = call /\ pc' \in {"decided", "idle"})]_vars

C9_Witness ==
    /\ pc = "decided"
    /\ nu.result = Return(FALSE)
    /\ nu.endpoints # <<>>
    /\ call.op = "register"
    /\ call.tx # 0
    /\ call.result # NoneVal
    /\ txs[call.tx].included
    /\ txs[call.tx].code = 0
    /\ call.args.agent_address = nu.address
    /\ call.args.endpoints = nu.endpoints
    /\ call.args.protocols = nu.protocols
    /\ Len(txs) < MaxTx

(***************************************************************************)
(* How a wait_for_tx_to_complete call ended, and the time it took.         *)
(***************************************************************************)
WaitReturned == wpc = "done" /\ call.result # NoneVal /\ call.result.kind = "return"
WaitTimedOut == wpc = "done" /\ call.result = Raise("QueryTimeoutError")
Elapsed == now - start
\* The polls of a finished call that the ledger answered with not-found.
NotFoundPolls == IF WaitReturned THEN polls - 1 ELSE polls

(***************************************************************************)
(* C6: for a transaction hash that the ledger never reports as found,      *)
(* wait_for_tx_to_complete eventually raises QueryTimeout, and it raises   *)
(* QueryTimeout only when the time elapsed since the call started is at    *)
(* least the timeout.                                                      *)
(***************************************************************************)
C6_NeverFoundTimesOut ==
    /\ [](WaitTimedOut => Elapsed >= timeout)
    /\ <>(txs[1].included \/ WaitTimedOut)

C6_Witness ==
    /\ WaitTimedOut
    /\ ~txs[1].included
    /\ timeout > 0
    /\ polls >= 2
    /\ Elapsed >= timeout

(***************************************************************************)
(* C7 as claimed: for a hash that becomes found after exactly k not-found  *)
(* polls, with k * poll_period < timeout, wait_for_tx_to_complete returns  *)
(* the ledger's response and does not raise QueryTimeout, has made at      *)
(* least k queries, and the elapsed time at return is at most the timeout. *)
(***************************************************************************)
C7_FoundAfterKReturnsInTime ==
    (wpc = "done" /\ txs[1].included /\ NotFoundPolls * poll_period < timeout)
        => /\ call.result = Return(TxResponse(1))
           /\ polls >= NotFoundPolls
           /\ Elapsed <= timeout

(***************************************************************************)
(* C7 as amended: for a hash that becomes found after exactly k not-found  *)
(* polls, with k * poll_period < timeout, the call either returns the      *)
(* ledger's response after exactly k + 1 queries, the elapsed time taken   *)
(* after the last not-found poll being below the timeout, or raises        *)
(* QueryTimeout after exactly k queries, the elapsed time taken after the  *)
(* last of them having reached the timeout (the round trips and the        *)
(* oversleeping count).                                                    *)
(***************************************************************************)
C7_FoundAfterKReturnsOrDeadlinePassed ==
    (wpc = "done" /\ txs[1].included /\ NotFoundPolls * poll_period < timeout)
        => \/ /\ call.result = Return(TxResponse(1))
              /\ (NotFoundPolls > 0 => delta < timeout)
           \/ /\ call.result = Raise("QueryTimeoutError")
              /\ delta >= timeout

C7_Witness ==
    /\ WaitReturned
    /\ NotFoundPolls >= 1
    /\ NotFoundPolls * poll_period < timeout
    /\ call.result.value.hash = 1

(***************************************************************************)
(* What a finished registration_needs_update call saw on the ledger.       *)
(***************************************************************************)
NuCalled == nu.op = "registration_needs_update"
NuRegistered == NuCalled /\ nu.response.record # <<>>
NuSecondsToExpiry ==
    (nu.response.record[1].expiry - nu.response.height) * AVERAGE_BLOCK_INTERVAL
NuSameEndpoints ==
    LET reg == nu.response.record[1].endpoints IN
    /\ Len(nu.endpoints) = Len(reg)
    /\ \A i \in 1..Len(reg) :
           nu.endpoints[i][1] = reg[i].url /\ nu.endpoints[i][2] = reg[i].weight
NuSameProtocols == nu.protocols = nu.response.record[1].protocols

(***************************************************************************)
(* C1: for an address with no record on-chain, registration_needs_update   *)
(* completes and returns true, whatever the desired endpoints, protocols   *)
(* and min_seconds_left.  The code raises ValueError there.                *)
(***************************************************************************)
C1_UnregisteredReturnsTrue ==
    (NuCalled /\ nu.response.record = <<>>) => nu.result = Return(TRUE)

(***************************************************************************)
(* C2: for a registered agent, registration_needs_update returns true      *)
(* whenever seconds_to_expiry < min_seconds_left, also when the desired    *)
(* endpoints and protocols equal the registered ones.                      *)
(***************************************************************************)
C2_ExpiryBreachedNeedsUpdate ==
    (NuRegistered /\ NuSecondsToExpiry < nu.min_seconds_left)
        => nu.result = Return(TRUE)

C2_Witness ==
    /\ NuRegistered
    /\ NuSecondsToExpiry < 0
    /\ NuSecondsToExpiry < nu.min_seconds_left
    /\ NuSameEndpoints
    /\ NuSameProtocols
    /\ nu.endpoints # <<>>
    /\ nu.result = Return(TRUE)

(***************************************************************************)
(* C3: for a registered agent with seconds_to_expiry >= min_seconds_left   *)
(* and registered protocols equal to the desired ones,                     *)
(* registration_needs_update returns true if and only if the desired       *)
(* endpoint list differs from the registered one, by value and in order.   *)
(***************************************************************************)
C3_EndpointsDecide ==
    (NuRegistered /\ NuSecondsToExpiry >= nu.min_seconds_left /\ NuSameProtocols)
        => nu.result = Return(~NuSameEndpoints)

C3_Witness ==
    /\ NuRegistered
    /\ NuSecondsToExpiry >= nu.min_seconds_left
    /\ NuSameProtocols
    /\ Len(nu.endpoints) = 2
    /\ Len(nu.response.record[1].endpoints) = 2
    /\ nu.endpoints[1] = model_validate(nu.response.record[1].endpoints[2])
    /\ nu.endpoints[2] = model_validate(nu.response.record[1].endpoints[1])
    /\ nu.endpoints[1] # nu.endpoints[2]
    /\ nu.result = Return(TRUE)


(***************************************************************************)
(* What a finished get_registration_tx call was asked, and what the        *)
(* contract holds for the name.                                            *)
(***************************************************************************)
TxCalled == call.op = "get_registration_tx"
TxFullName == FullName(call.args.name, call.args.domain)
TxAvailable == names[TxFullName].is_available
TxOwner == names[TxFullName].permissions[call.args.wallet_address] = "admin"
IsPurchase(m) ==
    /\ DOMAIN m.msg = {"register"}
    /\ m.msg.register.domain = TxFullName
    /\ m.sender = call.args.wallet_address
IsUpdate(m) ==
    /\ DOMAIN m.msg = {"update_record"}
    /\ m.msg.update_record.domain = TxFullName
    /\ m.msg.update_record.agent_records = call.args.agent_records
    /\ m.sender = call.args.wallet_address

(***************************************************************************)
(* C10: get_registration_tx returns, for every name, domain and wallet:    *)
(* if the name is available, a transaction whose messages are a            *)
(* domain-purchase (register) message followed by an update_record         *)
(* message; if the name is not available and the wallet is its owner, a    *)
(* transaction that holds the update_record message only; if the name is   *)
(* not available and the wallet is not its owner, None.                    *)
(***************************************************************************)
C10_RegistrationTxByCase ==
    TxCalled =>
        /\ call.result.kind = "return"
        /\ TxAvailable =>
              /\ call.result.value # NoneVal
              /\ Len(call.result.value.val.msgs) = 2
              /\ IsPurchase(call.result.value.val.msgs[1])
              /\ IsUpdate(call.result.value.val.msgs[2])
        /\ (~TxAvailable /\ TxOwner) =>
              /\ call.result.value # NoneVal
              /\ Len(call.result.value.val.msgs) = 1
              /\ IsUpdate(call.result.value.val.msgs[1])
        /\ (~TxAvailable /\ ~TxOwner) => call.result.value = NoneVal

C10_Witness ==
    /\ TxCalled
    /\ TxAvailable
    /\ ~TxOwner
    /\ call.result.value # NoneVal
    /\ Len(call.result.value.val.msgs) = 2
    /\ call.result.value.val.msgs[1].funds = <<86400, FeeDenomination>>
    /\ \E f \in FullNames : ~names[f].is_available

(***************************************************************************)
(* What a NameServiceContract.register call was asked: the network of its  *)
(* ledger, the records parsed from its configuration and their addresses.  *)
(* Primed, they speak of the call a step makes.                            *)
(***************************************************************************)
NameCalled == call.op = "name_register"
NameNetwork == IF call.args.chain_id = "fetchhub-4" THEN "mainnet" ELSE "testnet"
NameParsed == parse_record_config(call.args.agent_records)
NameFull == FullName(call.args.name, call.args.domain)
\* The Almanac get_almanac_contract finds usable for the call's network.
NameAlmanac ==
    IF NameNetwork = "mainnet"
       /\ almanacs["mainnet"].contract_version = Some(ALMANAC_CONTRACT_VERSION)
    THEN Some("mainnet")
    ELSE IF almanacs["testnet"].contract_version = Some(ALMANAC_CONTRACT_VERSION)
         THEN Some("testnet")
         ELSE NoneVal
NameTargetsRegistered ==
    /\ NameAlmanac # NoneVal
    /\ \A k \in 1..Len(NameParsed.val) :
          NameParsed.val[k].address \in almanacs[NameAlmanac.val].registered
NameDomainPublic ==
    /\ domain_flags[call.args.domain] # NoneVal
    /\ domain_flags[call.args.domain].val.web3_flags.is_public
NameAvailableOrOwned ==
    \/ names[NameFull].is_available
    \/ names[NameFull].permissions[call.args.wallet] = "admin"
\* A step in which a NameServiceContract.register call is made.
NameCallStep == call = NoCall /\ call'.op = "name_register"

C12_PreconditionFailureReturns ==
    (/\ NameCalled
     /\ call.tx = 0
     /\ NameParsed # NoneVal
     /\ NameParsed.val # <<>>
     /\ ~(NameTargetsRegistered /\ NameDomainPublic /\ NameAvailableOrOwned))
        => (call.result = Return(NoneVal) /\ call.log # "none")

(***************************************************************************)
(* The (address, weight) pairs of a list of records.                       *)
(***************************************************************************)
PairsOf(recs) == {<<recs[i].address, recs[i].weight>> : i \in 1..Len(recs)}

(***************************************************************************)
(* C13: NameServiceContract.register with overwrite=false submits the      *)
(* previous on-chain records merged with the new ones and deduplicated by  *)
(* the (address, weight) pair: every pair of previous plus new records     *)
(* appears exactly once among the submitted records, and no other record   *)
(* appears.                                                                *)
(***************************************************************************)
C13_MergeDeduplicates ==
    [][(NameCallStep /\ call'.tx # 0 /\ ~call'.args.overwrite)
       => LET previous == IF domain_records[NameFull'] = NoneVal
                          THEN <<>> ELSE domain_records[NameFull'].val
              msgs == txs'[call'.tx].msgs
              submitted == msgs[Len(msgs)].msg.update_record.agent_records
              wanted == PairsOf(previous) \cup PairsOf(NameParsed'.val)
          IN /\ PairsOf(submitted) = wanted
             /\ Cardinality(wanted) = Len(submitted)
             /\ \A i \in 1..Len(submitted) :
                   DOMAIN submitted[i] = {"address", "weight"}]_vars

C13_Witness ==
    /\ NameCalled
    /\ call.tx = 1
    /\ ~call.args.overwrite
    /\ ~txs[1].included
    /\ domain_records[NameFull] = Some(<<[address |-> "agent1", weight |-> 1]>>)
    /\ NameParsed.val = <<[address |-> "agent1", weight |-> 1],
                          [address |-> "agent2", weight |-> 2]>>
    /\ LET msgs == txs[1].msgs IN
       Len(msgs[Len(msgs)].msg.update_record.agent_records) = 2

(***************************************************************************)
(* C14: get_almanac_contract(network) returns the contract of the          *)
(* requested network or None, never the contract of another network; when  *)
(* the deployed version of the requested network does not match, or cannot *)
(* be queried, it gives None.  For the mainnet the code goes on to the     *)
(* testnet contract.                                                       *)
(***************************************************************************)
C14_OwnNetworkOrNone ==
    call.op = "get_almanac_contract"
        => /\ call.result.value \in {NoneVal, Some(call.args.network)}
           /\ almanacs[call.args.network].contract_version # Some(ALMANAC_CONTRACT_VERSION)
                 => call.result.value = NoneVal

(***************************************************************************)
(* C15: when the contract reports no record for an address, get_expiry     *)
(* reports the estimate expiry_height * AVERAGE_BLOCK_INTERVAL of the      *)
(* global contract state.  The code returns the empty list before the      *)
(* fallback, and get_expiry takes item 0 of it.                            *)
(***************************************************************************)
C15_NoRecordFallsBack ==
    (call.op = "get_expiry" /\ call.response.record = <<>>)
        => call.result = Return(expiry_height * AVERAGE_BLOCK_INTERVAL)

(***************************************************************************)
(* C16: within one register_batch call over fully signed records r1..rN,   *)
(* the broadcast transaction holds exactly N registration messages, and    *)
(* message i carries the address, protocols, endpoints, signature and      *)
(* timestamp (as sequence) of record ri: the order of the messages is the  *)
(* order of the records, none dropped, duplicated or reordered.            *)
(***************************************************************************)
C16_BatchKeepsOrder ==
    (call.op = "register_batch" /\ call.tx # 0)
        => LET msgs == txs[call.tx].msgs IN
           /\ Len(msgs) = Len(call.args)
           /\ \A i \in 1..Len(call.args) :
                LET reg == msgs[i].msg.register
                    ri == call.args[i]
                IN /\ reg.agent_address = ri.address
                   /\ reg.record.service.protocols = ri.protocols
                   /\ Len(reg.record.service.endpoints) = Len(ri.endpoints)
                   /\ \A j \in 1..Len(ri.endpoints) :
                         /\ reg.record.service.endpoints[j].url = ri.endpoints[j][1]
                         /\ reg.record.service.endpoints[j].weight = ri.endpoints[j][2]
                   /\ Some(reg.signature) = ri.signature
                   /\ Some(reg.sequence) = ri.timestamp

C16_Witness ==
    /\ call.op = "register_batch"
    /\ call.tx # 0
    /\ Len(call.args) = 2
    /\ call.args[1].address = "agent2"
    /\ call.args[2].address = "agent1"
    /\ call.args[1].signature # call.args[2].signature
    /\ call.args[1].endpoints # <<>>
    /\ txs[call.tx].included

(***************************************************************************)
(* The sum of the amounts attached to the messages from k on.              *)
(***************************************************************************)
RECURSIVE TotalFunds(_, _)
TotalFunds(msgs, k) ==
    IF k > Len(msgs) THEN 0 ELSE msgs[k].funds[1] + TotalFunds(msgs, k + 1)

(***************************************************************************)
(* C17: every Almanac registration message of a broadcast transaction      *)
(* carries one fee attachment of REGISTRATION_FEE in the network's fee     *)
(* denomination; a register call attaches the fee once, a register_batch   *)
(* call over N records a total of REGISTRATION_FEE * N.                    *)
(***************************************************************************)
C17_FeePerMessage ==
    /\ \A h \in 1..Len(txs) : \A k \in 1..Len(txs[h].msgs) :
          txs[h].msgs[k].funds = <<REGISTRATION_FEE, FeeDenomination>>
    /\ (call.op = "register" /\ call.tx # 0)
          => TotalFunds(txs[call.tx].msgs, 1) = REGISTRATION_FEE
    /\ (call.op = "register_batch" /\ call.tx # 0)
          => TotalFunds(txs[call.tx].msgs, 1) = REGISTRATION_FEE * Len(call.args)

C17_Witness ==
    /\ call.op = "register_batch"
    /\ call.tx # 0
    /\ Len(call.args) = 2
    /\ TotalFunds(txs[call.tx].msgs, 1) = REGISTRATION_FEE * 2
    /\ \A k \in 1..2 : txs[call.tx].msgs[k].funds[2] = FeeDenomination

(***************************************************************************)
(* C18: when the contract address is not set, register and register_batch  *)
(* raise at once: no transaction is broadcast, no wait begins, the caller  *)
(* has the error and nothing calls again for it.  Without a contract       *)
(* address no transaction exists.                                          *)
(***************************************************************************)
C18_AddressUnsetRaises ==
    /\ [][(/\ self_address = NoneVal
           /\ pc = "idle"
           /\ call' # call
           /\ call'.op \in {"register", "register_batch"})
          => (/\ call'.result = Raise("ValueError")
              /\ call'.tx = 0
              /\ pc' = "idle"
              /\ UNCHANGED <<txs, chainVars, pollVars>>)]_vars
    /\ [](self_address = NoneVal => txs = <<>> /\ pc = "idle" /\ wpc = "done")

C18_Witness ==
    /\ self_address = NoneVal
    /\ call.op = "register"
    /\ call.args.endpoints # <<>>
    /\ call.result = Raise("ValueError")
    /\ call.tx = 0
    /\ txs = <<>>
    /\ \A a \in Agents : ~Incomplete(records[a])

(***************************************************************************)
(* C19: unregister(name, domain, wallet) submits no transaction and        *)
(* returns normally when the name is available; when the name is not       *)
(* available it submits exactly one remove_domain message for              *)
(* "<name>.<domain>", and it does not return before the wait for that      *)
(* transaction is over: it has returned only if the ledger has the         *)
(* transaction.                                                            *)
(***************************************************************************)
C19_UnregisterWaits ==
    /\ [][(call = NoCall /\ call'.op = "unregister")
          => LET full == FullName(call'.args.name, call'.args.domain) IN
             IF names[full].is_available
             THEN /\ txs' = txs
                  /\ call'.tx = 0
                  /\ call'.result = Return(NoneVal)
                  /\ pc' = "idle"
             ELSE /\ txs' = Append(txs, txs'[Len(txs')])
                  /\ call'.tx = Len(txs')
                  /\ Len(txs'[call'.tx].msgs) = 1
                  /\ txs'[call'.tx].msgs[1].msg = [remove_domain |-> [domain |-> full]]
                  /\ ~txs'[call'.tx].included
                  /\ call'.result = NoneVal]_vars
    /\ [](call.op = "unregister"
          => /\ Len(txs) = (IF call.tx = 0 THEN 0 ELSE 1)
             /\ (call.tx # 0 /\ call.result = Return(NoneVal)) => txs[call.tx].included
             /\ (call.result = NoneVal) => pc = "unregistering")

C19_Witness ==
    /\ call.op = "unregister"
    /\ call.tx = 1
    /\ call.result = Return(NoneVal)
    /\ pc = "idle"
    /\ txs[1].included
    /\ txs[1].code = 0
    /\ names[FullName(call.args.name, call.args.domain)].is_available
    /\ domain_records[FullName(call.args.name, call.args.domain)] = NoneVal

(***************************************************************************)
(* C20: while a wait_for_tx_to_complete call is suspended between two      *)
(* polls, the other calls of the process can take their steps: a register  *)
(* call can start, its poller can go on, a query call can run.  Their      *)
(* steps leave the suspended call as it is, and a second call that has     *)
(* finished has finished whatever the first transaction's state: the       *)
(* pending transaction keeps no call from finishing.                       *)
(***************************************************************************)
C20_WaitLeavesLoopFree ==
    /\ []((pc = "waiting" /\ wpc = "sleep")
          => /\ other = NoOther => ENABLED OtherRegister
             /\ other.pc = "sleep" => ENABLED OtherWake
             /\ nu = NoCall => ENABLED OtherQuery)
    /\ [][(other' # other \/ nu' # nu)
          => (/\ wpc \in {"sleep", "done"}
              /\ UNCHANGED <<pc, call, pollVars>>)]_vars

C20_Witness ==
    /\ pc = "waiting"
    /\ wpc = "sleep"
    /\ ~txs[call.tx].included
    /\ other.pc = "done"
    /\ other.polls >= 2
    /\ other.result = Return(TxResponse(other.tx))
    /\ nu # NoCall
    /\ nu.result.kind = "return"

(***************************************************************************)
(* query_contract, of AlmanacContract and of NameServiceContract.          *)
(*                                                                         *)
(* A response is [tag |-> its Python type, val |-> its content].  What the *)
(* ledger does with a query is Return(response) or Raise(exception); the   *)
(* ledger holds an answer ready for each of MaxAnswers successive queries. *)
(***************************************************************************)
MaxAnswers == 2          \* successive queries the ledger has an answer for

ContractKinds == {"AlmanacContract", "NameServiceContract"}

QueryMsgs ==
    [AlmanacContract |-> {<<"query_contract_state">>, <<"query_records", "agent1">>},
     NameServiceContract |-> {<<"query_contract_state">>, <<"domain_record", "alice.agent">>}]

Responses ==
    {[tag |-> "dict", val |-> <<>>],
     [tag |-> "dict", val |-> <<"record">>],
     [tag |-> "list", val |-> <<>>],
     [tag |-> "str", val |-> <<"record">>],
     [tag |-> "int", val |-> <<>>],
     NoneVal}

LedgerAnswers == {Return(r) : r \in Responses} \cup {Raise("RuntimeError")}

isinstance_dict(response) == response.tag = "dict"

\* logger.error of the except clause of the two classes.
QueryErrorLog(kind, query_msg, e) ==
    IF kind = "AlmanacContract"
    THEN <<"Query failed with error: ", e, ".">>
    ELSE <<"Querying NameServiceContract failed for query ", query_msg, ".">>

(***************************************************************************)
(* A query_contract that queries again after a response that is no dict.   *)
(***************************************************************************)
query_contract_retrying(kind, query_msg, answers) ==
    LET first == answers[1]
        bad(a) == a.kind = "return" /\ ~isinstance_dict(a.value)
        last == IF bad(first) THEN answers[2] ELSE first
        sent == IF bad(first) THEN <<query_msg, query_msg>> ELSE <<query_msg>>
    IN  IF last.kind = "raise"
        THEN [sent |-> sent, log |-> <<QueryErrorLog(kind, query_msg, last.exc)>>,
              result |-> last]
        ELSE IF ~isinstance_dict(last.value)
        THEN [sent |-> sent, log |-> <<QueryErrorLog(kind, query_msg, "ValueError")>>,
              result |-> Raise("ValueError")]
        ELSE [sent |-> sent, log |-> <<>>, result |-> Return(last.value)]

(***************************************************************************)
(* query_contract: self.query(query_msg) once; an exception of the query,  *)
(* and the ValueError raised for a response that is no dict, are logged    *)
(* and raised again; a dict is returned as it came.  sent is what went to  *)
(* the ledger.                                                             *)
(***************************************************************************)
query_contract(kind, query_msg, answers) ==
    LET response == answers[1] IN
    IF response.kind = "raise"
    THEN [sent |-> <<query_msg>>,
          log |-> <<QueryErrorLog(kind, query_msg, response.exc)>>,
          result |-> response]
    ELSE IF ~isinstance_dict(response.value)
    THEN [sent |-> <<query_msg>>,
          log |-> <<QueryErrorLog(kind, query_msg, "ValueError")>>,
          result |-> Raise("ValueError")]
    ELSE [sent |-> <<query_msg>>, log |-> <<>>, result |-> Return(response.value)]

(***************************************************************************)
(* A caller queries a contract.                                            *)
(***************************************************************************)
QueryContract ==
    /\ \E kind \in ContractKinds :
       \E query_msg \in QueryMsgs[kind], answers \in [1..MaxAnswers -> LedgerAnswers] :
        LET r == query_contract(kind, query_msg, answers) IN
        call' = [op |-> "query_contract", kind |-> kind,
                 args |-> [query_msg |-> query_msg],
                 answers |-> answers,
                 sent |-> r.sent, log |-> r.log, result |-> r.result]
    /\ UNCHANGED <<other, chainVars, txs, now, nu, self_address, records, pc, frec, pollVars>>

(***************************************************************************)
(* SpecContract: one query_contract call on either contract, the ledger    *)
(* answering with every shape of response or with an exception.            *)
(***************************************************************************)
InitContract ==
    /\ almanac = [a \in Agents |-> NoRecord]
    /\ height = 0
    /\ names = NoNames
    /\ NoNameService
    /\ txs = <<>>
    /\ now = 0
    /\ self_address = Some(ContractAddress)
    /\ records = [a \in Agents |-> NoneVal]
    /\ nu = NoCall
    /\ other = NoOther
    /\ pc = "idle"
    /\ frec = NoneVal
    /\ call = NoCall
    /\ NoWait

NextContract == call = NoCall /\ QueryContract

SpecContract == InitContract /\ [][NextContract]_vars

QcCalled == call.op = "query_contract"
QcFirst == call.answers[1]

(***************************************************************************)
(* C21: query_contract, of either contract, returns a response only when   *)
(* the response is a dict, and then returns it as it came; for a response  *)
(* of any other shape it raises; and it has sent exactly one query to the  *)
(* ledger whatever the outcome.                                            *)
(***************************************************************************)
C21_OnlyDictReturnedOneQuery ==
    QcCalled =>
        /\ call.sent = <<call.args.query_msg>>
        /\ call.result.kind = "return" =>
              /\ QcFirst.kind = "return"
              /\ isinstance_dict(QcFirst.value)
              /\ call.result.value = QcFirst.value
        /\ (QcFirst.kind = "return" /\ ~isinstance_dict(QcFirst.value)) =>
              call.result.kind = "raise"
        /\ QcFirst.kind = "raise" => call.result = QcFirst

\* A list came first and a dict would have come second: the call has raised.
C21_Witness ==
    /\ QcCalled
    /\ call.kind = "NameServiceContract"
    /\ QcFirst = Return([tag |-> "list", val |-> <<>>])
    /\ call.answers[2] = Return([tag |-> "dict", val |-> <<"record">>])
    /\ call.result = Raise("ValueError")

(***************************************************************************)
(* C22: NameServiceContract.register with overwrite=true submits, in its   *)
(* update_record message, exactly the parsed new records, in their order:  *)
(* get_previous_records is not called and no previous on-chain record is   *)
(* carried over.                                                           *)
(***************************************************************************)
C22_OverwriteReplaces ==
    [][(NameCallStep /\ call'.tx # 0 /\ call'.args.overwrite)
       => LET msgs == txs'[call'.tx].msgs
              update == msgs[Len(msgs)].msg
          IN /\ DOMAIN update = {"update_record"}
             /\ update.update_record.domain = NameFull'
             /\ update.update_record.agent_records = NameParsed'.val
             /\ call'.previous_records = NoneVal]_vars

\* The name holds two records on chain, neither of them among the new ones.
C22_Witness ==
    /\ NameCalled
    /\ call.tx = 1
    /\ call.args.overwrite
    /\ ~txs[1].included
    /\ domain_records[NameFull] = Some(<<[address |-> "agent1_1", weight |-> 1],
                                         [address |-> "agent1", weight |-> 2]>>)
    /\ NameParsed.val = <<[address |-> "agent1", weight |-> 1]>>
    /\ LET msgs == txs[1].msgs IN
       msgs[Len(msgs)].msg.update_record.agent_records =
           <<[address |-> "agent1", weight |-> 1]>>

(***************************************************************************)
(* A register or register_batch call begins; the preconditions of the call *)
(* just begun: a contract address, and for register_batch a timestamp and  *)
(* a signature in every record.                                            *)
(***************************************************************************)
RegCallStep ==
    /\ pc = "idle"
    /\ call' # call
    /\ call'.op \in {"register", "register_batch"}

RegPreconditions ==
    /\ self_address # NoneVal
    /\ call'.op = "register_batch" =>
           \A k \in 1..Len(call'.args) : ~Incomplete(call'.args[k])

(***************************************************************************)
(* C23: a call of register or register_batch broadcasts exactly one        *)
(* transaction when its preconditions hold and none when one fails; and no *)
(* transaction is broadcast at any other step: not by a poll that does not *)
(* find the transaction, not by the QueryTimeoutError, not by the return.  *)
(***************************************************************************)
C23_OneBroadcastPerCall ==
    [][/\ (RegCallStep /\ RegPreconditions) =>
              /\ Len(txs') = Len(txs) + 1
              /\ SubSeq(txs', 1, Len(txs)) = txs
              /\ call'.tx = Len(txs')
       /\ (RegCallStep /\ ~RegPreconditions) =>
              /\ txs' = txs
              /\ call'.result = Raise("ValueError")
       /\ ~RegCallStep => Len(txs') = Len(txs)]_vars

\* register_batch of two records has polled three times without finding its
\* transaction and raised QueryTimeoutError: one transaction is on the ledger.
C23_Witness ==
    /\ pc = "waiting"
    /\ wpc = "done"
    /\ call.op = "register_batch"
    /\ Len(call.args) = 2
    /\ call.result = Raise("QueryTimeoutError")
    /\ polls = 3
    /\ Len(txs) = 1
    /\ ~txs[1].included

(***************************************************************************)
(* wait_for_tx_to_complete makes a query_tx call; the call ends.           *)
(***************************************************************************)
PollStep == wpc = "query" /\ polls' = polls + 1
WaitEnds == wpc # "done" /\ wpc' = "done"

(***************************************************************************)
(* C24: wait_for_tx_to_complete raises QueryTimeoutError only in a turn of *)
(* its loop whose query did not find the transaction, so after at least    *)
(* one query, also with a timeout of zero; and a query that finds the      *)
(* transaction makes the call return the response, also when the deadline  *)
(* had passed before the query was made.                                   *)
(***************************************************************************)
C24_TimeoutOnlyAfterNotFound ==
    [][/\ (WaitEnds /\ call'.result = Raise("QueryTimeoutError")) =>
              /\ PollStep
              /\ polls' >= 1
              /\ query_tx(tx_hash) = Raise("NotFoundError")
       /\ (PollStep /\ query_tx(tx_hash).kind = "return") =>
              /\ WaitEnds
              /\ call'.result = query_tx(tx_hash)
       /\ WaitEnds => PollStep]_vars

\* The transaction was found by a query made after the deadline.
C24_Witness ==
    /\ WaitReturned
    /\ polls >= 2
    /\ call.result.value = TxResponse(tx_hash)
    /\ Elapsed >= timeout + MaxDelay

=============================================================================
